---- MODULE Spec2Model ----
(***************************************************************************)
(* The bitcraft-planner API (src/api).                                     *)
(*                                                                         *)
(* Recipe dependency tree resolver (routes/items.py): the two recursive    *)
(* functions calculate_recipe_tree_by_item / calculate_recipe_tree_by_recipe *)
(* and the two HTTP entry points get_item_recipe_tree / get_recipe_tree,   *)
(* over the read-only game data tables of models/gamedata.py.              *)
(*                                                                         *)
(* Crafting projects (routes/crafting.py, models/crafting.py): projects    *)
(* addressed by a public or a private UUID, their owners and items.        *)
(*                                                                         *)
(* Groups and projects (routes/groups.py, routes/projects.py,              *)
(* models/users.py, models/projects.py): groups with member roles and      *)
(* invites, and projects with their items.                                 *)
(***************************************************************************)
EXTENDS Integers, Sequences, FiniteSets, TLC

VARIABLES
    game_items,         \* item_id values of the rows of table game_items
    game_item_recipes,  \* rows of game_item_recipes with their consumed/produced rows
    call,               \* the last request: operation and arguments
    response,           \* what that request was answered with
    tasks,              \* the coroutines of the event loop, each at an await
    lookups,            \* the queries sent to the database and not yet answered
    crafting_projects,        \* project_id values of the rows of crafting_projects
    crafting_project_owners,  \* rows of crafting_project_owners
    crafting_project_items,   \* rows of crafting_project_items, in insertion order
    crafting_response,        \* the last crafting request and its answer
    owner_tasks,              \* the remove-owner requests being handled, each at an await
    user_groups,              \* rows of user_groups
    user_group_memberships,   \* rows of user_group_memberships
    user_group_invites,       \* rows of user_group_invites
    projects,                 \* rows of projects
    project_items,            \* rows of project_items, in insertion order
    group_response            \* the last group or project request and its answer

crafting_vars ==
    <<crafting_projects, crafting_project_owners, crafting_project_items,
      crafting_response, owner_tasks>>

project_vars ==
    <<user_groups, user_group_memberships, user_group_invites, projects, project_items,
      group_response>>

vars ==
    <<game_items, game_item_recipes, call, response, tasks, lookups,
      crafting_vars, project_vars>>

-----------------------------------------------------------------------------
(* Bounds of the model *)

NumItems == 4       \* game_items holds item ids 1..NumItems
MaxRecipes == 3     \* rows of game_item_recipes
MaxAmount == 4      \* requests ask for amounts 0..MaxAmount
MaxDepthArg == 1    \* largest max_depth a direct call passes
NumTasks == 2       \* requests the event loop handles at the same time
MaxFrames == 24     \* coroutines a task may nest, more than max_depth = 10 needs
NumUsers == 2       \* rows of users, ids 1..NumUsers
MaxProjects == 1    \* rows of crafting_projects and of projects
MaxRows == 2        \* rows of crafting_project_items and of project_items
MaxGroups == 1      \* rows of user_groups
MaxInvites == 1     \* rows of user_group_invites

(* Program constants *)

ReforgingBuildingType == 127749503
DefaultMaxDepth == 10

\* An item id that recipes may mention but game_items does not hold.
UnknownItem == NumItems + 1

-----------------------------------------------------------------------------
(* Game data.  Recipes are the rows the loader writes from the game's      *)
(* crafting_recipe_desc.json: a building type, a list of consumed stacks   *)
(* and a list of produced stacks.  Items: 1 = A, 2 = B, 3 = C, 4 = X.      *)

Stack(item_id, amount) == [item_id |-> item_id, amount |-> amount]

Recipe(building, produced, consumed) ==
    [building_type_requirement |-> building,
     produced_items |-> produced,
     consumed_items |-> consumed]

RecipePool ==
    << Recipe(33, <<Stack(4, 1)>>, <<Stack(1, 2), Stack(2, 1)>>),       \* X <- 2A + 1B
       Recipe(33, <<Stack(2, 1)>>, <<Stack(1, 3)>>),                    \* B <- 3A
       Recipe(ReforgingBuildingType, <<Stack(2, 1)>>, <<Stack(3, 1)>>), \* B <- C, reforging
       Recipe(33, <<Stack(1, 1), Stack(3, 2)>>, <<>>),                  \* gathering A and C
       Recipe(33, <<Stack(1, 1), Stack(1, 1)>>, <<>>),                  \* gathering A twice
       Recipe(33, <<Stack(2, 3), Stack(3, 1)>>, <<Stack(1, 2)>>),       \* 3B + 1C <- 2A
       Recipe(33, <<Stack(1, 1)>>, <<Stack(2, 1)>>),                    \* A <- B
       Recipe(33, <<Stack(2, 1)>>, <<Stack(3, 2)>>),                    \* B <- 2C
       Recipe(33, <<Stack(3, 1)>>, <<Stack(1, 1)>>),                    \* C <- A
       Recipe(33, <<Stack(3, 2)>>, <<Stack(UnknownItem, 1)>>),          \* 2C <- unknown item
       Recipe(33, <<>>, <<Stack(1, 1)>>) >>                             \* produces nothing

RECURSIVE SortedSeq(_)
SortedSeq(S) ==
    IF S = {} THEN <<>>
    ELSE LET m == CHOOSE x \in S : \A y \in S : x <= y
         IN <<m>> \o SortedSeq(S \ {m})

\* The recipes table holding the pool entries picked, primary key = position.
Catalog(picked) ==
    LET idx == SortedSeq(picked)
    IN [k \in 1..Len(idx) |-> [id |-> k] @@ RecipePool[idx[k]]]

Catalogs ==
    {Catalog(picked) : picked \in {S \in SUBSET (1..Len(RecipePool)) : Cardinality(S) <= MaxRecipes}}

-----------------------------------------------------------------------------
(* Lookups of src/api/models/gamedata.py *)

\* What get_by_id answers when no row matches: a falsy value.
NoRecipe == [id |-> 0] @@ Recipe(0, <<>>, <<>>)

\* GameItemRecipeOrm.get_by_id
GetRecipeById(recipe_id) ==
    IF recipe_id \in 1..Len(game_item_recipes) THEN game_item_recipes[recipe_id] ELSE NoRecipe

\* Rows of game_item_recipe_produced, in primary key order.
RECURSIVE ProducedRows(_)
ProducedRows(k) ==
    IF k = 0 THEN <<>>
    ELSE ProducedRows(k - 1) \o
         [i \in 1..Len(game_item_recipes[k].produced_items) |->
            [recipe_id |-> k,
             item_id |-> game_item_recipes[k].produced_items[i].item_id,
             amount |-> game_item_recipes[k].produced_items[i].amount]]

\* The rows in an order that is not fixed: reversed while the database has
\* other queries to answer (the select has no ORDER BY).
GetByItemIdAnyOrder(item_id) ==
    LET rows == SelectSeq(ProducedRows(Len(game_item_recipes)),
                          LAMBDA row : row.item_id = item_id)
    IN IF Cardinality(lookups) > 1
       THEN [n \in 1..Len(rows) |-> rows[Len(rows) + 1 - n]]
       ELSE rows

\* GameItemRecipeProducedOrm.get_by_item_id
GetByItemId(item_id) ==
    SelectSeq(ProducedRows(Len(game_item_recipes)), LAMBDA row : row.item_id = item_id)

\* GameItemOrm.get_by_id, reduced to whether a row exists
ItemExists(item_id) == item_id \in game_items

\* The name read from the row without the test for a missing row.
ItemNameOfRow(item_id) == <<"name of item", item_id>>

\* item_orm.name if item_orm else f"Unknown Item {item_id}"
ItemName(item_id) ==
    IF ItemExists(item_id) THEN <<"name of item", item_id>> ELSE <<"Unknown Item", item_id>>

-----------------------------------------------------------------------------
(* Result values *)

RecipeTreeItem(item_id, item_name, amount, is_base_material) ==
    [item_id |-> item_id, item_name |-> item_name, amount |-> amount,
     is_base_material |-> is_base_material]

RecipeTreeStep(depth, items) == [depth |-> depth, items |-> items]

Tree(steps, base_materials) == [steps |-> steps, base_materials |-> base_materials]

-----------------------------------------------------------------------------
(* The resolver *)

\* The loop that finds the first non-reforging recipe; 0 stands for None.
RECURSIVE SuitableRecipeFrom(_, _)
SuitableRecipeFrom(item_recipes_orm, i) ==
    IF i > Len(item_recipes_orm) THEN 0
    ELSE LET recipe_orm == GetRecipeById(item_recipes_orm[i].recipe_id)
         IN IF recipe_orm.id # 0 /\ recipe_orm.building_type_requirement # ReforgingBuildingType
            THEN item_recipes_orm[i].recipe_id
            ELSE SuitableRecipeFrom(item_recipes_orm, i + 1)

\* The selection without the test of building_type_requirement: the first
\* candidate whatever its building type.
SuitableRecipeAny(item_recipes_orm) ==
    IF item_recipes_orm = <<>> THEN 0 ELSE item_recipes_orm[1].recipe_id

\* The selection without the break: the last non-reforging candidate.
SuitableRecipeLast(item_recipes_orm) ==
    LET usable == {k \in 1..Len(item_recipes_orm) :
                     GetRecipeById(item_recipes_orm[k].recipe_id).building_type_requirement
                        # ReforgingBuildingType}
    IN IF usable = {} THEN 0
       ELSE item_recipes_orm[CHOOSE k \in usable : \A j \in usable : j <= k].recipe_id

SuitableRecipeId(item_recipes_orm) == SuitableRecipeFrom(item_recipes_orm, 1)

\* The base material with the default amount of the signature (amount = 1)
\* in place of the requested one.
BaseMaterialDefaultAmount(item_id, amount) ==
    RecipeTreeItem(item_id, ItemName(item_id), 1, TRUE)

\* The base material emitted for an item without a suitable recipe.
BaseMaterial(item_id, amount) == RecipeTreeItem(item_id, ItemName(item_id), amount, TRUE)

\* The runs with floor division: amount // produced_amount.
RecipeRunsFloor(recipe_orm, amount) ==
    LET produced_amount ==
            IF Len(recipe_orm.produced_items) > 0 THEN recipe_orm.produced_items[1].amount ELSE 1
    IN amount \div produced_amount

\* recipe_runs = (amount + produced_amount - 1) // produced_amount
RecipeRuns(recipe_orm, amount) ==
    LET produced_amount ==
            IF Len(recipe_orm.produced_items) > 0 THEN recipe_orm.produced_items[1].amount ELSE 1
    IN (amount + produced_amount - 1) \div produced_amount

\* The merge without the addition: an item already listed keeps its amount.
MergeOneNoSum(base_materials, sub_base) ==
    IF \E k \in 1..Len(base_materials) : base_materials[k].item_id = sub_base.item_id
    THEN base_materials
    ELSE Append(base_materials, sub_base)

\* One pass of the merge loop: add sub_base to the first entry with its item id,
\* or append it.
MergeOne(base_materials, sub_base) ==
    IF \E k \in 1..Len(base_materials) : base_materials[k].item_id = sub_base.item_id
    THEN LET first == CHOOSE k \in 1..Len(base_materials) :
                          /\ base_materials[k].item_id = sub_base.item_id
                          /\ \A j \in 1..(k - 1) : base_materials[j].item_id # sub_base.item_id
         IN [base_materials EXCEPT ![first].amount = @ + sub_base.amount]
    ELSE Append(base_materials, sub_base)

RECURSIVE MergeBaseMaterials(_, _, _)
MergeBaseMaterials(base_materials, sub_base_materials, i) ==
    IF i > Len(sub_base_materials) THEN base_materials
    ELSE MergeBaseMaterials(MergeOne(base_materials, sub_base_materials[i]),
                            sub_base_materials, i + 1)

\* The gathering branch with the amount of the produced row in place of the
\* requested one.
GatheredMaterialsProducedAmount(recipe_orm, amount) ==
    [i \in 1..Len(recipe_orm.produced_items) |->
        BaseMaterial(recipe_orm.produced_items[i].item_id,
                     recipe_orm.produced_items[i].amount)]

\* The gathering branch: one base material per produced row, each with the
\* requested amount.
GatheredMaterials(recipe_orm, amount) ==
    [i \in 1..Len(recipe_orm.produced_items) |->
        BaseMaterial(recipe_orm.produced_items[i].item_id, amount)]

\* current_step_items once the loop over consumed_items has ended: one entry
\* per consumed row, total_needed = consumed_item.amount * recipe_runs.
CurrentStepItems(consumed_items, recipe_runs) ==
    [i \in 1..Len(consumed_items) |->
        RecipeTreeItem(consumed_items[i].item_id, ItemName(consumed_items[i].item_id),
                       consumed_items[i].amount * recipe_runs, FALSE)]

\* steps after the first i iterations of the loop: steps.extend(sub_steps)
RECURSIVE ExtendSteps(_, _)
ExtendSteps(subs, i) ==
    IF i = 0 THEN <<>> ELSE ExtendSteps(subs, i - 1) \o subs[i].steps

\* base_materials after the first i iterations of the loop
RECURSIVE MergeSubs(_, _)
MergeSubs(subs, i) ==
    IF i = 0 THEN <<>>
    ELSE MergeBaseMaterials(MergeSubs(subs, i - 1), subs[i].base_materials, 1)

RECURSIVE calculate_recipe_tree_by_item(_, _, _, _)
RECURSIVE calculate_recipe_tree_by_recipe(_, _, _, _)

calculate_recipe_tree_by_item(item_id, amount, depth, max_depth) ==
    IF depth > max_depth THEN Tree(<<>>, <<>>)
    ELSE LET item_recipes_orm == GetByItemId(item_id)
             suitable_recipe_id == SuitableRecipeId(item_recipes_orm)
         IN IF item_recipes_orm = <<>> THEN Tree(<<>>, <<BaseMaterial(item_id, amount)>>)
            ELSE IF suitable_recipe_id = 0 THEN Tree(<<>>, <<BaseMaterial(item_id, amount)>>)
            ELSE calculate_recipe_tree_by_recipe(suitable_recipe_id, amount, depth, max_depth)

\* subs[i] is what the recursive call made in iteration i of the loop over
\* consumed_items returns; the calls are made in the order of the rows.
calculate_recipe_tree_by_recipe(recipe_id, amount, depth, max_depth) ==
    IF depth > max_depth THEN Tree(<<>>, <<>>)
    ELSE LET recipe_orm == GetRecipeById(recipe_id)
             consumed_items == recipe_orm.consumed_items
             recipe_runs == RecipeRuns(recipe_orm, amount)
             subs == [i \in 1..Len(consumed_items) |->
                        calculate_recipe_tree_by_item(consumed_items[i].item_id,
                            consumed_items[i].amount * recipe_runs, depth + 1, max_depth)]
         IN IF recipe_orm.id = 0 \/ consumed_items = <<>>
            THEN Tree(<<>>, GatheredMaterials(recipe_orm, amount))
            ELSE Tree(<<RecipeTreeStep(depth, CurrentStepItems(consumed_items, recipe_runs))>>
                         \o ExtendSteps(subs, Len(subs)),
                      MergeSubs(subs, Len(subs)))

-----------------------------------------------------------------------------
(* Requests and responses *)

Amounts == 0..MaxAmount
ItemIds == 1..UnknownItem
RecipeIds == 1..(MaxRecipes + 1)

Call(op, id, amount, depth, max_depth) ==
    [op |-> op, id |-> id, amount |-> amount, depth |-> depth, max_depth |-> max_depth]

Response(status, recipe_id, item_id, item_name, tree) ==
    [status |-> status, recipe_id |-> recipe_id, item_id |-> item_id,
     item_name |-> item_name, steps |-> tree.steps, base_materials |-> tree.base_materials]

\* HTTPException(status_code = status): no body of a result
HttpError(status) == Response(status, 0, 0, <<>>, Tree(<<>>, <<>>))

\* RecipeTreeResponse
RecipeTreeResponse(recipe_id, item_id, item_name, tree) ==
    Response(200, recipe_id, item_id, item_name, tree)

\* The tuple a direct call of one of the two functions returns
Returned(tree) == Response(1, 0, 0, <<>>, tree)

ByItemOps == {"get_item_recipe_tree", "calculate_recipe_tree_by_item"}
ByRecipeOps == {"get_recipe_tree", "calculate_recipe_tree_by_recipe"}

NoCall == Call("none", 0, 0, 0, 0)
NoResponse == Response(0, 0, 0, <<>>, Tree(<<>>, <<>>))

\* No request is being handled.
Idle == call = NoCall

\* The coroutines the event loop runs, one per request being handled.
Tasks == 1..NumTasks

\* A task that handles no request.
IdleTask ==
    [status |-> "idle", request |-> NoCall, stack |-> <<>>, response |-> NoResponse,
     issued |-> 0]

\* No crafting request has been made.
NoCraftingResponse ==
    [op |-> "none", uuid |-> <<"public", 0>>, item_id |-> 0, status |-> 0]

\* No remove-owner request is being handled by the task.
IdleOwnerTask ==
    [pc |-> "idle", project_id |-> 0, discord_id |-> 0, requester_user_id |-> 0,
     user_to_remove |-> 0, status |-> 0]

\* The tables of the crafting projects as created: no rows.
NoCraftingData ==
    /\ crafting_projects = {}
    /\ crafting_project_owners = {}
    /\ crafting_project_items = <<>>
    /\ crafting_response = NoCraftingResponse
    /\ owner_tasks = [t \in Tasks |-> IdleOwnerTask]

\* No group or project request has been made.
NoGroupResponse ==
    [op |-> "none", user_id |-> 0, group_id |-> 0, project_id |-> 0, target |-> 0,
     item_id |-> 0, count |-> 0, status |-> 0]

\* The tables of the groups and projects as created: no rows.
NoProjectData ==
    /\ user_groups = {}
    /\ user_group_memberships = {}
    /\ user_group_invites = {}
    /\ projects = {}
    /\ project_items = <<>>
    /\ group_response = NoGroupResponse

Init ==
    /\ game_items = 1..NumItems
    /\ game_item_recipes \in Catalogs
    /\ call = NoCall
    /\ response = NoResponse
    /\ tasks = [t \in Tasks |-> IdleTask]
    /\ lookups = {}
    /\ NoCraftingData
    /\ NoProjectData

\* The entry point without its own 404s for a root without a usable recipe:
\* it hands the root item to calculate_recipe_tree_by_item, whose fallback
\* answers the item itself as a base material.
get_item_recipe_tree_fallback(item_id, amount) ==
    /\ Idle
    /\ call' = Call("get_item_recipe_tree", item_id, amount, 0, DefaultMaxDepth)
    /\ response' =
         IF ~ItemExists(item_id) THEN HttpError(404)
         ELSE RecipeTreeResponse(SuitableRecipeId(GetByItemId(item_id)), item_id,
                 ItemName(item_id),
                 calculate_recipe_tree_by_item(item_id, amount, 0, DefaultMaxDepth))
    /\ UNCHANGED <<game_items, game_item_recipes, tasks, lookups, crafting_vars, project_vars>>

\* GET /items/{item_id}/recipe-tree
get_item_recipe_tree(item_id, amount) ==
    LET item_recipes_orm == GetByItemId(item_id)
        suitable_recipe_id == SuitableRecipeId(item_recipes_orm)
    IN /\ Idle
       /\ call' = Call("get_item_recipe_tree", item_id, amount, 0, DefaultMaxDepth)
       /\ response' =
            IF ~ItemExists(item_id) THEN HttpError(404)
            ELSE IF item_recipes_orm = <<>> THEN HttpError(404)
            ELSE IF suitable_recipe_id = 0 THEN HttpError(404)
            ELSE RecipeTreeResponse(suitable_recipe_id, item_id, ItemName(item_id),
                    calculate_recipe_tree_by_recipe(suitable_recipe_id, amount, 0,
                                                    DefaultMaxDepth))
       /\ UNCHANGED <<game_items, game_item_recipes, tasks, lookups, crafting_vars, project_vars>>

\* The entry point answering 404 for a recipe without produced items too.
get_recipe_tree_404_only(recipe_id, amount) ==
    LET recipe_orm == GetRecipeById(recipe_id)
    IN /\ Idle
       /\ call' = Call("get_recipe_tree", recipe_id, amount, 0, DefaultMaxDepth)
       /\ response' =
            IF recipe_orm.id = 0 \/ recipe_orm.produced_items = <<>> THEN HttpError(404)
            ELSE RecipeTreeResponse(recipe_id, recipe_orm.produced_items[1].item_id,
                    ItemName(recipe_orm.produced_items[1].item_id),
                    calculate_recipe_tree_by_recipe(recipe_id, amount, 0, DefaultMaxDepth))
       /\ UNCHANGED <<game_items, game_item_recipes, tasks, lookups, crafting_vars, project_vars>>

\* GET /items/recipe/{recipe_id}/recipe-tree
get_recipe_tree(recipe_id, amount) ==
    LET recipe_orm == GetRecipeById(recipe_id)
    IN /\ Idle
       /\ call' = Call("get_recipe_tree", recipe_id, amount, 0, DefaultMaxDepth)
       /\ response' =
            IF recipe_orm.id = 0 THEN HttpError(404)
            ELSE IF recipe_orm.produced_items = <<>> THEN HttpError(400)
            ELSE RecipeTreeResponse(recipe_id, recipe_orm.produced_items[1].item_id,
                    ItemName(recipe_orm.produced_items[1].item_id),
                    calculate_recipe_tree_by_recipe(recipe_id, amount, 0, DefaultMaxDepth))
       /\ UNCHANGED <<game_items, game_item_recipes, tasks, lookups, crafting_vars, project_vars>>

\* A call of calculate_recipe_tree_by_item whose max_depth argument is not
\* honoured: the default of the signature is used.
CallByItemDefaultMaxDepth(item_id, amount, depth, max_depth) ==
    /\ Idle
    /\ call' = Call("calculate_recipe_tree_by_item", item_id, amount, depth, max_depth)
    /\ response' = Returned(calculate_recipe_tree_by_item(item_id, amount, depth,
                                                          DefaultMaxDepth))
    /\ UNCHANGED <<game_items, game_item_recipes, tasks, lookups, crafting_vars, project_vars>>

\* A call of calculate_recipe_tree_by_item, as the loop over consumed_items
\* makes it (depth 1, a consumed item) or from outside (depth 0, a root item)
CallByItem(item_id, amount, depth, max_depth) ==
    /\ Idle
    /\ call' = Call("calculate_recipe_tree_by_item", item_id, amount, depth, max_depth)
    /\ response' = Returned(calculate_recipe_tree_by_item(item_id, amount, depth, max_depth))
    /\ UNCHANGED <<game_items, game_item_recipes, tasks, lookups, crafting_vars, project_vars>>

\* A call of calculate_recipe_tree_by_recipe
CallByRecipe(recipe_id, amount, depth, max_depth) ==
    /\ Idle
    /\ call' = Call("calculate_recipe_tree_by_recipe", recipe_id, amount, depth, max_depth)
    /\ response' = Returned(calculate_recipe_tree_by_recipe(recipe_id, amount, depth, max_depth))
    /\ UNCHANGED <<game_items, game_item_recipes, tasks, lookups, crafting_vars, project_vars>>

\* The answer has been handed to the caller; nothing of it is kept.
Answered ==
    /\ ~Idle
    /\ call' = NoCall
    /\ response' = NoResponse
    /\ UNCHANGED <<game_items, game_item_recipes, tasks, lookups, crafting_vars, project_vars>>

Next ==
    \/ \E item_id \in ItemIds, amount \in Amounts : get_item_recipe_tree(item_id, amount)
    \/ \E recipe_id \in RecipeIds, amount \in Amounts : get_recipe_tree(recipe_id, amount)
    \/ \E item_id \in ItemIds, amount \in Amounts,
          depth \in 0..1, max_depth \in 0..MaxDepthArg :
            CallByItem(item_id, amount, depth, max_depth)
    \/ \E recipe_id \in RecipeIds, amount \in Amounts,
          depth \in 0..1, max_depth \in 0..MaxDepthArg :
            CallByRecipe(recipe_id, amount, depth, max_depth)
    \/ Answered

Spec == Init /\ [][Next]_vars

-----------------------------------------------------------------------------
(* The same code, one await at a time.  Every function of the resolver is  *)
(* a coroutine: it runs until it awaits a query of the database, and the   *)
(* event loop resumes it when the query is answered.  A task holds the     *)
(* stack of the coroutines that await each other; the top one awaits a     *)
(* query.  Several requests are handled at once, their awaits interleaved. *)

\* The local variables of a coroutine called with these arguments; pc names
\* the variable the pending await assigns.
Frame(fn, id, amount, depth, max_depth) ==
    [fn |-> fn, id |-> id, amount |-> amount, depth |-> depth, max_depth |-> max_depth,
     pc |-> "start", item_recipes_orm |-> <<>>, k |-> 0, suitable_recipe_id |-> 0,
     recipe_orm |-> NoRecipe, recipe_runs |-> 0, i |-> 0,
     steps |-> <<>>, base_materials |-> <<>>, current_step_items |-> <<>>]

\* A query: session.execute(select(table).filter(column == key))
Lookup(table, key) == [table |-> table, key |-> key]

\* The stack of a task, innermost coroutine first.
Push(stack, f) == <<f>> \o stack
Top(stack) == Head(stack)
Pop(stack) == Tail(stack)

\* The task is suspended: its top coroutine awaits the queries awaited.
Suspended(stack, awaited) == [stack |-> stack, awaited |-> awaited, response |-> NoResponse]

\* The outermost coroutine returned or raised.
Completed(answer) == [stack |-> <<>>, awaited |-> {}, response |-> answer]

\* The guard removed: no call is ever cut off.
NoDepthGuard(depth, max_depth) == FALSE

\* if depth > max_depth
DepthExceeded(depth, max_depth) == depth > max_depth

\* The recursive call made with depth in place of depth + 1.
SameDepth(depth) == depth

\* The depth argument of the recursive call
ChildDepth(depth) == depth + 1

\* The lists kept at module level: a call starts with what the call that
\* runs in the first busy task has in them.
SharedLists ==
    LET busy == {t \in Tasks : \E n \in 1..Len(tasks[t].stack) :
                                  tasks[t].stack[n].fn = "calculate_recipe_tree_by_recipe"}
    IN IF busy = {}
       THEN [steps |-> <<>>, base_materials |-> <<>>, current_step_items |-> <<>>]
       ELSE LET stack == tasks[CHOOSE t \in busy : \A u \in busy : t <= u].stack
                n == CHOOSE n \in 1..Len(stack) :
                        /\ stack[n].fn = "calculate_recipe_tree_by_recipe"
                        /\ \A m \in 1..(n - 1) :
                              stack[m].fn # "calculate_recipe_tree_by_recipe"
            IN [steps |-> stack[n].steps, base_materials |-> stack[n].base_materials,
                current_step_items |-> stack[n].current_step_items]

\* The lists a call of calculate_recipe_tree_by_recipe starts with.
NewLists == [steps |-> <<>>, base_materials |-> <<>>, current_step_items |-> <<>>]

\* All rows looked up at once and awaited together, as asyncio.gather does.
GatherConsumedItems(consumed_items, i) ==
    IF i = 1
    THEN {Lookup("game_items", consumed_items[j].item_id) : j \in 1..Len(consumed_items)}
    ELSE {}

\* consumed_item_orm = await GameItemOrm.get_by_id(consumed_item.item_id), for
\* row i of the loop
AwaitConsumedItem(consumed_items, i) == {Lookup("game_items", consumed_items[i].item_id)}

RECURSIVE ReturnTo(_, _)
RECURSIVE NextConsumed(_, _)

\* The head of the loop over consumed_items in frame f, called by the
\* coroutines of stack: the next row's item is looked up, or the loop has
\* ended and f returns.
NextConsumed(stack, f) ==
    IF f.i <= Len(f.recipe_orm.consumed_items)
    THEN Suspended(Push(stack, [f EXCEPT !.pc = "consumed_item_orm"]),
                   AwaitConsumedItem(f.recipe_orm.consumed_items, f.i))
    ELSE ReturnTo(stack,
            Tree((IF f.current_step_items # <<>>
                  THEN <<RecipeTreeStep(f.depth, f.current_step_items)>> ELSE <<>>)
                    \o f.steps,
                 f.base_materials))

\* A coroutine returns tree to its caller, the top of stack, which runs on to
\* its next await.
ReturnTo(stack, tree) ==
    IF stack = <<>> THEN Completed(Returned(tree))
    ELSE LET f == Top(stack)
         IN CASE f.fn = "calculate_recipe_tree_by_item" -> ReturnTo(Pop(stack), tree)
              [] f.fn = "calculate_recipe_tree_by_recipe" ->
                    \* steps.extend(sub_steps), the merge loop, the next row; the
                    \* frame is bound as an element of a set so that it is a value.
                    CHOOSE outcome \in
                        {NextConsumed(Pop(stack), merged) :
                            merged \in {[f EXCEPT !.steps = @ \o tree.steps,
                                                  !.base_materials =
                                                      MergeBaseMaterials(@, tree.base_materials, 1),
                                                  !.i = @ + 1]}} : TRUE
              [] f.fn = "get_item_recipe_tree" ->
                    Completed(RecipeTreeResponse(f.suitable_recipe_id, f.id,
                                                 ItemName(f.id), tree))
              [] f.fn = "get_recipe_tree" ->
                    Completed(RecipeTreeResponse(f.id, f.recipe_orm.produced_items[1].item_id,
                                  ItemName(f.recipe_orm.produced_items[1].item_id), tree))

\* calculate_recipe_tree_by_item is called by the top of stack and runs to
\* its first await.
EnterByItem(stack, item_id, amount, depth, max_depth) ==
    IF DepthExceeded(depth, max_depth) THEN ReturnTo(stack, Tree(<<>>, <<>>))
    ELSE Suspended(
            Push(stack, [Frame("calculate_recipe_tree_by_item", item_id, amount, depth,
                                 max_depth) EXCEPT !.pc = "item_recipes_orm"]),
            {Lookup("game_item_recipe_produced", item_id)})

\* calculate_recipe_tree_by_recipe is called by the top of stack and runs to
\* its first await.
EnterByRecipe(stack, recipe_id, amount, depth, max_depth) ==
    IF DepthExceeded(depth, max_depth) THEN ReturnTo(stack, Tree(<<>>, <<>>))
    ELSE Suspended(
            Push(stack, [Frame("calculate_recipe_tree_by_recipe", recipe_id, amount, depth,
                                 max_depth) EXCEPT !.pc = "recipe_orm",
                                                   !.steps = NewLists.steps,
                                                   !.base_materials = NewLists.base_materials,
                                                   !.current_step_items =
                                                       NewLists.current_step_items]),
            {Lookup("game_item_recipes", recipe_id)})

\* The head of the loop over item_recipes_orm in frame f: the next candidate's
\* recipe is looked up, or no candidate is suitable.
NextCandidate(stack, f) ==
    IF f.k <= Len(f.item_recipes_orm)
    THEN Suspended(Push(stack, [f EXCEPT !.pc = "recipe_orm"]),
                   {Lookup("game_item_recipes", f.item_recipes_orm[f.k].recipe_id)})
    ELSE IF f.fn = "get_item_recipe_tree" THEN Completed(HttpError(404))
    ELSE Suspended(Push(stack, [f EXCEPT !.pc = "item_orm"]), {Lookup("game_items", f.id)})

\* The query the top coroutine of stack awaits is answered, and the task runs
\* on to its next await.
Resume(stack) ==
    LET f == Top(stack)
        rest == Pop(stack)
        item_recipes_orm == GetByItemId(f.id)
        candidate_id == f.item_recipes_orm[f.k].recipe_id
        recipe_orm == IF f.pc = "recipe_orm" /\ f.fn \in ByItemOps
                      THEN GetRecipeById(candidate_id) ELSE GetRecipeById(f.id)
    IN CASE f.fn = "get_item_recipe_tree" /\ f.pc = "item_orm" ->
              IF ~ItemExists(f.id) THEN Completed(HttpError(404))
              ELSE Suspended(Push(rest, [f EXCEPT !.pc = "item_recipes_orm"]),
                             {Lookup("game_item_recipe_produced", f.id)})
         [] f.fn = "get_item_recipe_tree" /\ f.pc = "item_recipes_orm" ->
              IF item_recipes_orm = <<>> THEN Completed(HttpError(404))
              ELSE NextCandidate(rest, [f EXCEPT !.item_recipes_orm = item_recipes_orm,
                                                 !.k = 1])
         [] f.fn = "calculate_recipe_tree_by_item" /\ f.pc = "item_recipes_orm" ->
              IF item_recipes_orm = <<>>
              THEN Suspended(Push(rest, [f EXCEPT !.pc = "item_orm"]),
                             {Lookup("game_items", f.id)})
              ELSE NextCandidate(rest, [f EXCEPT !.item_recipes_orm = item_recipes_orm,
                                                 !.k = 1])
         [] f.fn \in ByItemOps /\ f.pc = "recipe_orm" ->
              IF recipe_orm.id # 0
                    /\ recipe_orm.building_type_requirement # ReforgingBuildingType
              THEN EnterByRecipe(Push(rest, [f EXCEPT !.suitable_recipe_id = candidate_id,
                                                        !.pc = "call"]),
                                 candidate_id, f.amount, f.depth, f.max_depth)
              ELSE NextCandidate(rest, [f EXCEPT !.k = @ + 1])
         [] f.fn = "calculate_recipe_tree_by_item" /\ f.pc = "item_orm" ->
              ReturnTo(rest, Tree(<<>>, <<BaseMaterial(f.id, f.amount)>>))
         [] f.fn = "get_recipe_tree" /\ f.pc = "recipe_orm" ->
              IF recipe_orm.id = 0 THEN Completed(HttpError(404))
              ELSE IF recipe_orm.produced_items = <<>> THEN Completed(HttpError(400))
              ELSE Suspended(Push(rest, [f EXCEPT !.recipe_orm = recipe_orm,
                                                    !.pc = "item_orm"]),
                             {Lookup("game_items", recipe_orm.produced_items[1].item_id)})
         [] f.fn = "get_recipe_tree" /\ f.pc = "item_orm" ->
              EnterByRecipe(Push(rest, [f EXCEPT !.pc = "call"]),
                            f.id, f.amount, f.depth, f.max_depth)
         [] f.fn = "calculate_recipe_tree_by_recipe" /\ f.pc = "recipe_orm" ->
              IF recipe_orm.id = 0 \/ recipe_orm.consumed_items = <<>>
              THEN IF recipe_orm.id # 0 /\ recipe_orm.produced_items # <<>>
                   THEN Suspended(Push(rest, [f EXCEPT !.recipe_orm = recipe_orm,
                                                         !.i = 1, !.pc = "item_orm"]),
                                  {Lookup("game_items", recipe_orm.produced_items[1].item_id)})
                   ELSE ReturnTo(rest, Tree(<<>>, f.base_materials))
              ELSE NextConsumed(rest, [f EXCEPT !.recipe_orm = recipe_orm,
                                                !.recipe_runs = RecipeRuns(recipe_orm, f.amount),
                                                !.i = 1])
         [] f.fn = "calculate_recipe_tree_by_recipe" /\ f.pc = "item_orm" ->
              LET produced_items == f.recipe_orm.produced_items
                  g == [f EXCEPT !.base_materials =
                                     Append(@, BaseMaterial(produced_items[f.i].item_id,
                                                            f.amount)),
                                 !.i = @ + 1]
              IN IF g.i <= Len(produced_items)
                 THEN Suspended(Push(rest, g),
                                {Lookup("game_items", produced_items[g.i].item_id)})
                 ELSE ReturnTo(rest, Tree(<<>>, g.base_materials))
         [] f.fn = "calculate_recipe_tree_by_recipe" /\ f.pc = "consumed_item_orm" ->
              LET consumed_item == f.recipe_orm.consumed_items[f.i]
                  total_needed == consumed_item.amount * f.recipe_runs
              IN EnterByItem(
                    Push(rest,
                        [f EXCEPT !.current_step_items =
                                      Append(@, RecipeTreeItem(consumed_item.item_id,
                                                    ItemName(consumed_item.item_id),
                                                    total_needed, FALSE)),
                                  !.pc = "call"]),
                    consumed_item.item_id, total_needed, ChildDepth(f.depth), f.max_depth)

\* The event loop starts the coroutine of a request, which runs to its first
\* await.
Begin(request) ==
    CASE request.op = "get_item_recipe_tree" ->
            Suspended(<<[Frame(request.op, request.id, request.amount, 0, DefaultMaxDepth)
                            EXCEPT !.pc = "item_orm"]>>,
                      {Lookup("game_items", request.id)})
      [] request.op = "get_recipe_tree" ->
            Suspended(<<[Frame(request.op, request.id, request.amount, 0, DefaultMaxDepth)
                            EXCEPT !.pc = "recipe_orm"]>>,
                      {Lookup("game_item_recipes", request.id)})
      [] request.op = "calculate_recipe_tree_by_item" ->
            EnterByItem(<<>>, request.id, request.amount, request.depth, request.max_depth)
      [] request.op = "calculate_recipe_tree_by_recipe" ->
            EnterByRecipe(<<>>, request.id, request.amount, request.depth, request.max_depth)

\* The task of a request after it ran to an await or to its end.
Ran(request, outcome, issued) ==
    [status |-> IF outcome.stack = <<>> THEN "done" ELSE "running",
     request |-> request, stack |-> outcome.stack, response |-> outcome.response,
     issued |-> issued + Cardinality(outcome.awaited)]

\* The queries of a task, as the database holds them.
Sent(t, awaited) == {[task |-> t, query |-> q] : q \in awaited}

\* The game data the requests below are made against: the recipes of the
\* pool by their positions.
TaskCatalogs == {Catalog({1, 2}), Catalog({2, 7, 8}), Catalog({3, 4, 8})}

\* The requests a task may handle.
Requests ==
    { Call("get_item_recipe_tree", 4, 2, 0, DefaultMaxDepth),
      Call("get_item_recipe_tree", 4, -1, 0, DefaultMaxDepth),
      Call("get_item_recipe_tree", 2, 2, 0, DefaultMaxDepth),
      Call("get_recipe_tree", 3, 2, 0, DefaultMaxDepth),
      Call("calculate_recipe_tree_by_item", 1, 2, 0, MaxDepthArg),
      Call("calculate_recipe_tree_by_recipe", 2, 3, 1, 0) }

TaskInit ==
    /\ game_items = 1..NumItems
    /\ game_item_recipes \in TaskCatalogs
    /\ call = NoCall
    /\ response = NoResponse
    /\ tasks = [t \in Tasks |-> IdleTask]
    /\ lookups = {}
    /\ NoCraftingData
    /\ NoProjectData

\* A request arrives and the event loop starts a task for it.
Start(t, request) ==
    /\ tasks[t].status = "idle"
    /\ LET outcome == Begin(request)
       IN /\ tasks' = [tasks EXCEPT ![t] = Ran(request, outcome, 0)]
          /\ lookups' = lookups \cup Sent(t, outcome.awaited)
    /\ UNCHANGED <<game_items, game_item_recipes, call, response, crafting_vars, project_vars>>

\* The database answers a query and the event loop resumes the task that
\* awaits it.
AnswerLookup(t, l) ==
    /\ tasks[t].status = "running"
    /\ l \in lookups
    /\ l.task = t
    /\ Len(tasks[t].stack) < MaxFrames
    /\ LET outcome == Resume(tasks[t].stack)
       IN /\ tasks' = [tasks EXCEPT ![t] = Ran(tasks[t].request, outcome, tasks[t].issued)]
          /\ lookups' = (lookups \ {l}) \cup Sent(t, outcome.awaited)
    /\ UNCHANGED <<game_items, game_item_recipes, call, response, crafting_vars, project_vars>>

\* The answer of a finished task is sent and the task is gone.
Respond(t) ==
    /\ tasks[t].status = "done"
    /\ tasks' = [tasks EXCEPT ![t] = IdleTask]
    /\ UNCHANGED <<game_items, game_item_recipes, call, response, lookups,
                    crafting_vars, project_vars>>

TaskNext ==
    \/ \E t \in Tasks, request \in Requests : Start(t, request)
    \/ \E t \in Tasks, l \in lookups : AnswerLookup(t, l)
    \/ \E t \in Tasks : Respond(t)

TaskSpec == TaskInit /\ [][TaskNext]_vars

\* Every query is answered and every task that can run is run.
FairTaskSpec ==
    TaskSpec /\ \A t \in Tasks : WF_vars(\E l \in lookups : AnswerLookup(t, l))

-----------------------------------------------------------------------------
(* Reading a result *)


\* The request was answered with a result: a 200 response of an entry point,
\* or the tuple a direct call returned.
HasResult == call.op # "none" /\ response.status \in {200, 1}

\* An entry point answered with a result.
EntryPointResult ==
    call.op \in {"get_item_recipe_tree", "get_recipe_tree"} /\ response.status = 200

\* The recipe a request expands at its root: the one named, or the one
\* selected for the item named; 0 when there is none.
RootRecipeId ==
    IF call.op \in ByRecipeOps THEN GetRecipeById(call.id).id
    ELSE IF call.op \in ByItemOps THEN SuitableRecipeId(GetByItemId(call.id))
    ELSE 0

\* The request expanded a recipe with consumed items at its root.
ExpandedRecipe ==
    /\ HasResult
    /\ call.depth <= call.max_depth
    /\ RootRecipeId # 0
    /\ GetRecipeById(RootRecipeId).consumed_items # <<>>

RECURSIVE SumAmounts(_, _, _)
\* The sum of the amounts of the first n entries of items that carry item_id.
SumAmounts(items, item_id, n) ==
    IF n = 0 THEN 0
    ELSE SumAmounts(items, item_id, n - 1) +
         (IF items[n].item_id = item_id THEN items[n].amount ELSE 0)

AmountIn(items, item_id) == SumAmounts(items, item_id, Len(items))

RECURSIVE SumSteps(_, _, _)
SumSteps(steps, item_id, n) ==
    IF n = 0 THEN 0
    ELSE SumSteps(steps, item_id, n - 1) + AmountIn(steps[n].items, item_id)

\* The sum of an item's amounts over all steps.
AmountInSteps(steps, item_id) == SumSteps(steps, item_id, Len(steps))

\* The least r with r * p >= a, for a >= 0 and p >= 1.
Ceiling(a, p) == CHOOSE r \in 0..a : r * p >= a /\ \A q \in 0..(r - 1) : q * p < a

\* No expansion was cut off by max_depth: no step sits at depth max_depth,
\* so no call was made with depth > max_depth.
NotTruncated ==
    /\ call.depth <= call.max_depth
    /\ \A k \in 1..Len(response.steps) : response.steps[k].depth < call.max_depth

\* The first candidate, in the order returned, that is not a reforging recipe;
\* 0 when there is none.
FirstNonReforging(item_id) ==
    LET cands == GetByItemId(item_id)
        usable == {k \in 1..Len(cands) :
                     game_item_recipes[cands[k].recipe_id].building_type_requirement
                        # ReforgingBuildingType}
    IN IF usable = {} THEN 0
       ELSE cands[CHOOSE k \in usable : \A j \in usable : k <= j].recipe_id

-----------------------------------------------------------------------------
(* C1: the base materials of a result hold at most one entry per item id,  *)
(* and the amount of an item's entry is the sum of what the branches       *)
(* (the consumed items of the root recipe) contribute for that item.       *)

C1_OneEntryPerItemSummed ==
    (HasResult /\ call.amount >= 1) =>
        /\ \A i, j \in 1..Len(response.base_materials) :
              i # j => response.base_materials[i].item_id # response.base_materials[j].item_id
        /\ ExpandedRecipe =>
              LET recipe_orm == GetRecipeById(RootRecipeId)
                  consumed_items == recipe_orm.consumed_items
                  runs == RecipeRuns(recipe_orm, call.amount)
                  branch(i) == calculate_recipe_tree_by_item(consumed_items[i].item_id,
                                   consumed_items[i].amount * runs, call.depth + 1,
                                   call.max_depth).base_materials
                  contributed(item_id) ==
                      LET RECURSIVE upto(_)
                          upto(n) == IF n = 0 THEN 0
                                     ELSE upto(n - 1) + AmountIn(branch(n), item_id)
                      IN upto(Len(consumed_items))
              IN \A item_id \in ItemIds :
                    AmountIn(response.base_materials, item_id) = contributed(item_id)

(* C2: expanding a recipe with consumed items for a requested amount       *)
(* a >= 1, the primary produced amount being p >= 1, the first step lists  *)
(* each consumed item with its per-run amount times ceil(a / p).           *)

C2_CeilingRuns ==
    (/\ ExpandedRecipe
     /\ call.amount >= 1
     /\ GetRecipeById(RootRecipeId).produced_items # <<>>) =>
        LET recipe_orm == GetRecipeById(RootRecipeId)
            runs == Ceiling(call.amount, recipe_orm.produced_items[1].amount)
        IN /\ response.steps[1].depth = call.depth
           /\ Len(response.steps[1].items) = Len(recipe_orm.consumed_items)
           /\ \A i \in 1..Len(recipe_orm.consumed_items) :
                 /\ response.steps[1].items[i].item_id = recipe_orm.consumed_items[i].item_id
                 /\ response.steps[1].items[i].amount =
                        recipe_orm.consumed_items[i].amount * runs

\* A request for 4 of a recipe that makes 3 per run: 2 runs, where floor
\* division and rounding give 1.
C2_Witness ==
    /\ ExpandedRecipe
    /\ call.op = "calculate_recipe_tree_by_recipe"
    /\ call.amount = 4
    /\ GetRecipeById(call.id).produced_items # <<>>
    /\ GetRecipeById(call.id).produced_items[1].amount = 3
    /\ response.steps[1].items[1].amount = GetRecipeById(call.id).consumed_items[1].amount * 2

(* C3: an item expanded through its selected recipe is never               *)
(* under-produced: the recipe runs the expansion uses, times what the      *)
(* selected recipe produces of that item per run, reach the requested      *)
(* amount, wherever the item stands in the produced list.                  *)

C3_NeverUnderProduces ==
    (ExpandedRecipe /\ call.op \in ByItemOps) =>
        LET recipe_orm == GetRecipeById(RootRecipeId)
            runs == response.steps[1].items[1].amount \div recipe_orm.consumed_items[1].amount
        IN runs * AmountIn(recipe_orm.produced_items, call.id) >= call.amount

(* C4: in a result not truncated by max_depth, the base material amount of *)
(* an item without a usable recipe is the sum of its amounts over all      *)
(* steps; X <- 2A + 1B, B <- 3A, A without recipe, 2 X requested: steps    *)
(* (0: A 4, B 2), (1: A 6) and base materials (A 10).                      *)

C4_Scenario ==
    (/\ game_item_recipes = Catalog({1, 2})
     /\ call.op = "get_item_recipe_tree" /\ call.id = 4 /\ call.amount = 2) =>
        /\ response.status = 200
        /\ response.steps =
             << RecipeTreeStep(0, << RecipeTreeItem(1, ItemName(1), 4, FALSE),
                                     RecipeTreeItem(2, ItemName(2), 2, FALSE) >>),
                RecipeTreeStep(1, << RecipeTreeItem(1, ItemName(1), 6, FALSE) >>) >>
        /\ response.base_materials = << RecipeTreeItem(1, ItemName(1), 10, TRUE) >>

\* C4: the scenario, and base amount = sum of step amounts for every
\* recipe-less item of a result that max_depth did not truncate.
C4_BaseIsSumOfSteps ==
    /\ C4_Scenario
    /\ ((EntryPointResult \/ call.op = "calculate_recipe_tree_by_recipe") /\ NotTruncated) =>
          \A item_id \in ItemIds :
             SuitableRecipeId(GetByItemId(item_id)) = 0 =>
                AmountIn(response.base_materials, item_id)
                    = AmountInSteps(response.steps, item_id)

\* Two branches reach the same recipe-less item: the scenario of the claim.
C4_Witness ==
    /\ game_item_recipes = Catalog({1, 2})
    /\ call.op = "get_item_recipe_tree" /\ call.id = 4 /\ call.amount = 2
    /\ NotTruncated
    /\ AmountIn(response.base_materials, 1) = 10

(* C5: every amount of every step item and of every base material of a     *)
(* result an entry point answers with is a positive integer.               *)

C5_AmountsPositive ==
    EntryPointResult =>
        /\ \A k \in 1..Len(response.steps) :
              \A i \in 1..Len(response.steps[k].items) : response.steps[k].items[i].amount >= 1
        /\ \A i \in 1..Len(response.base_materials) : response.base_materials[i].amount >= 1

(* C6: the steps of a result are ordered shallowest-first.                 *)

C6_StepsShallowestFirst ==
    (HasResult /\ call.amount >= 1) =>
        \A i, j \in 1..Len(response.steps) :
            i < j => response.steps[i].depth <= response.steps[j].depth

(* C7: a result holds one step per recursion depth: no two steps carry     *)
(* the same depth.                                                         *)

C7_OneStepPerDepth ==
    (HasResult /\ call.amount >= 1) =>
        \A i, j \in 1..Len(response.steps) :
            i # j => response.steps[i].depth # response.steps[j].depth

(* C8: resolving an item that exists and has no producer candidates        *)
(* answers with no steps and the item itself, with the requested amount,   *)
(* as the only base material.                                              *)

\* C8 as claimed, of the entry point get_item_recipe_tree.
C8_RootWithoutProducers ==
    (/\ call.op = "get_item_recipe_tree"
     /\ ItemExists(call.id)
     /\ GetByItemId(call.id) = <<>>) =>
        /\ response.status = 200
        /\ response.steps = <<>>
        /\ response.base_materials =
              << RecipeTreeItem(call.id, ItemName(call.id), call.amount, TRUE) >>

\* C8 as amended: calculate_recipe_tree_by_item, called with depth <= max_depth
\* for an item without producer candidates, returns no steps and the item with
\* the requested amount as the only base material; the entry point
\* get_item_recipe_tree answers such a root item 404 without a result.
C8_WithoutProducers ==
    GetByItemId(call.id) = <<>> =>
        /\ (call.op = "calculate_recipe_tree_by_item" /\ call.depth <= call.max_depth) =>
              /\ response.steps = <<>>
              /\ response.base_materials =
                    << RecipeTreeItem(call.id, ItemName(call.id), call.amount, TRUE) >>
        /\ call.op = "get_item_recipe_tree" =>
              /\ response.status = 404
              /\ response.steps = <<>>
              /\ response.base_materials = <<>>

C8_Witness ==
    /\ call.op = "calculate_recipe_tree_by_item"
    /\ call.depth <= call.max_depth
    /\ ItemExists(call.id)
    /\ GetByItemId(call.id) = <<>>
    /\ call.amount = 3
    /\ response.base_materials = << RecipeTreeItem(call.id, ItemName(call.id), 3, TRUE) >>

(* C9: the recipe selected for an item is the first candidate, in the      *)
(* order the catalog returns them, that is not a reforging recipe, for a   *)
(* root item and for a consumed item alike.                                *)

C9_FirstNonReforgingSelected ==
    /\ (call.op = "get_item_recipe_tree" /\ ItemExists(call.id)
            /\ FirstNonReforging(call.id) # 0) =>
          /\ response.status = 200
          /\ response.recipe_id = FirstNonReforging(call.id)
    /\ (call.op \in ByItemOps /\ HasResult /\ FirstNonReforging(call.id) # 0) =>
          LET tree == calculate_recipe_tree_by_recipe(FirstNonReforging(call.id),
                          call.amount, call.depth, call.max_depth)
          IN /\ response.steps = tree.steps
             /\ response.base_materials = tree.base_materials

\* A reforging candidate is skipped and the candidate after it is selected,
\* for a consumed item.
C9_Witness ==
    /\ call.op = "calculate_recipe_tree_by_item"
    /\ call.depth = 1 /\ call.max_depth = 1
    /\ Len(GetByItemId(call.id)) >= 2
    /\ GetRecipeById(GetByItemId(call.id)[1].recipe_id).building_type_requirement
          = ReforgingBuildingType
    /\ FirstNonReforging(call.id) = GetByItemId(call.id)[2].recipe_id
    /\ response.steps # <<>>
    /\ response.steps[1].items =
          CurrentStepItems(GetRecipeById(FirstNonReforging(call.id)).consumed_items,
                           call.amount)

(* C10: a consumed item all of whose producer candidates are reforging     *)
(* recipes is a base material: no steps, one base material entry for the   *)
(* item with the requested amount and is_base_material set, and no input   *)
(* of the reforging recipes anywhere in what is returned.                  *)

OnlyReforging(item_id) ==
    /\ GetByItemId(item_id) # <<>>
    /\ FirstNonReforging(item_id) = 0

\* The item ids the reforging candidates of item_id consume.
ReforgingInputs(item_id) ==
    LET cands == GetByItemId(item_id)
        consumed(k) == GetRecipeById(cands[k].recipe_id).consumed_items
    IN UNION {{consumed(k)[i].item_id : i \in 1..Len(consumed(k))} : k \in 1..Len(cands)}
          \ {item_id}

C10_OnlyReforgingIsBaseMaterial ==
    (/\ call.op = "calculate_recipe_tree_by_item"
     /\ call.depth <= call.max_depth
     /\ OnlyReforging(call.id)) =>
        /\ response.steps = <<>>
        /\ Len(response.base_materials) = 1
        /\ response.base_materials[1].item_id = call.id
        /\ response.base_materials[1].amount = call.amount
        /\ response.base_materials[1].is_base_material
        /\ \A input \in ReforgingInputs(call.id) :
              \A k \in 1..Len(response.base_materials) :
                 response.base_materials[k].item_id # input

C10_Witness ==
    /\ call.op = "calculate_recipe_tree_by_item"
    /\ call.depth = 1 /\ call.max_depth = 1
    /\ OnlyReforging(call.id)
    /\ ReforgingInputs(call.id) # {}
    /\ call.amount = 2
    /\ response.base_materials = << RecipeTreeItem(call.id, ItemName(call.id), 2, TRUE) >>

(* C11: get_item_recipe_tree answers 404 without a result when the root   *)
(* item is not in game_items, and when the root item has producer          *)
(* candidates all of which are reforging recipes; nothing of an expansion  *)
(* is in the answer.                                                       *)

C11_RootNotFound ==
    (/\ call.op = "get_item_recipe_tree"
     /\ \/ ~ItemExists(call.id)
        \/ OnlyReforging(call.id)) =>
        /\ response.status = 404
        /\ response = HttpError(404)
        /\ response.steps = <<>>
        /\ response.base_materials = <<>>

\* A root item that exists and has only a reforging candidate, whose inner
\* expansion would return the item as a base material.
C11_Witness ==
    /\ call.op = "get_item_recipe_tree"
    /\ ItemExists(call.id)
    /\ OnlyReforging(call.id)
    /\ call.amount = 2
    /\ response.status = 404
    /\ calculate_recipe_tree_by_item(call.id, call.amount, 0, DefaultMaxDepth).base_materials
          = << RecipeTreeItem(call.id, ItemName(call.id), 2, TRUE) >>

(* C12: get_recipe_tree answers with the same error kind, 404, when the    *)
(* recipe id is not in game_item_recipes and when the recipe exists and   *)
(* has no produced items.                                                  *)

OnlyInput(item_id) ==
    LET recipe_orm == GetRecipeById(SuitableRecipeId(GetByItemId(item_id)))
    IN IF recipe_orm.id # 0 /\ Len(recipe_orm.consumed_items) = 1
       THEN recipe_orm.consumed_items[1].item_id
       ELSE 0

\* item_id heads a chain of exactly three recipes that ends in an item
\* without recipe.
ChainOfThree(item_id) ==
    /\ OnlyInput(item_id) # 0
    /\ OnlyInput(OnlyInput(item_id)) # 0
    /\ OnlyInput(OnlyInput(OnlyInput(item_id))) # 0
    /\ GetByItemId(OnlyInput(OnlyInput(OnlyInput(item_id)))) = <<>>

\* The head of a chain of three is resolved from depth 0 with max_depth = 1.
ChainResolvedToDepthOne ==
    /\ call.op = "calculate_recipe_tree_by_item"
    /\ call.depth = 0 /\ call.max_depth = 1
    /\ call.amount >= 1
    /\ ChainOfThree(call.id)

\* C14 as claimed.
C14_TruncatedNonEmptyPair ==
    ChainResolvedToDepthOne =>
        /\ response.status = 1
        /\ response.steps # <<>>
        /\ response.base_materials # <<>>

\* C14 as amended: the result holds the steps of depths 0 and 1, one fewer
\* than the whole expansion, and no base material at all: the call made at
\* depth 2 returns ([], []), so the item without recipe at the end of the
\* chain, which the whole expansion lists, is never reached.
C14_TruncatedStepsNoBaseMaterials ==
    ChainResolvedToDepthOne =>
        LET whole == calculate_recipe_tree_by_item(call.id, call.amount, 0, DefaultMaxDepth)
        IN /\ response.status = 1
           /\ Len(response.steps) = 2
           /\ response.steps[1].depth = 0
           /\ response.steps[2].depth = 1
           /\ response.steps = SubSeq(whole.steps, 1, 2)
           /\ Len(whole.steps) = 3
           /\ response.base_materials = <<>>
           /\ Len(whole.base_materials) = 1
           /\ whole.base_materials[1].item_id = OnlyInput(OnlyInput(OnlyInput(call.id)))

C14_Witness ==
    /\ ChainResolvedToDepthOne
    /\ call.amount = 2
    /\ Len(response.steps) = 2
    /\ response.base_materials = <<>>

(* C19: calculate_recipe_tree_by_recipe on a recipe without consumed items *)
(* returns no steps and one base material per produced row, in the order   *)
(* of the rows, each with the requested amount, whatever amount is         *)
(* requested; the entry point get_recipe_tree answers such a recipe 200.   *)

C19_GatheringRecipe ==
    (/\ call.op \in ByRecipeOps
     /\ call.depth <= call.max_depth
     /\ GetRecipeById(call.id).id # 0
     /\ GetRecipeById(call.id).produced_items # <<>>
     /\ GetRecipeById(call.id).consumed_items = <<>>) =>
        LET produced_items == GetRecipeById(call.id).produced_items
        IN /\ HasResult
           /\ response.steps = <<>>
           /\ Len(response.base_materials) = Len(produced_items)
           /\ \A i \in 1..Len(produced_items) :
                 /\ response.base_materials[i].item_id = produced_items[i].item_id
                 /\ response.base_materials[i].amount = call.amount
                 /\ response.base_materials[i].is_base_material

\* 3 requested of a gathering recipe whose second row produces 2 per run.
C19_Witness ==
    /\ call.op = "get_recipe_tree"
    /\ response.status = 200
    /\ GetRecipeById(call.id).consumed_items = <<>>
    /\ Len(GetRecipeById(call.id).produced_items) = 2
    /\ GetRecipeById(call.id).produced_items[2].amount = 2
    /\ call.amount = 3
    /\ response.base_materials[2].amount = 3

-----------------------------------------------------------------------------
(* Reading a task *)

\* What the request is answered with when nothing else runs: the functions
\* of the resolver applied to it.
ResponseAlone(request) ==
    CASE request.op = "get_item_recipe_tree" ->
            IF ~ItemExists(request.id) \/ SuitableRecipeId(GetByItemId(request.id)) = 0
            THEN HttpError(404)
            ELSE RecipeTreeResponse(SuitableRecipeId(GetByItemId(request.id)), request.id,
                    ItemName(request.id),
                    calculate_recipe_tree_by_recipe(SuitableRecipeId(GetByItemId(request.id)),
                        request.amount, 0, DefaultMaxDepth))
      [] request.op = "get_recipe_tree" ->
            IF GetRecipeById(request.id).id = 0 THEN HttpError(404)
            ELSE IF GetRecipeById(request.id).produced_items = <<>> THEN HttpError(400)
            ELSE RecipeTreeResponse(request.id,
                    GetRecipeById(request.id).produced_items[1].item_id,
                    ItemName(GetRecipeById(request.id).produced_items[1].item_id),
                    calculate_recipe_tree_by_recipe(request.id, request.amount, 0,
                                                    DefaultMaxDepth))
      [] request.op = "calculate_recipe_tree_by_item" ->
            Returned(calculate_recipe_tree_by_item(request.id, request.amount,
                                                   request.depth, request.max_depth))
      [] request.op = "calculate_recipe_tree_by_recipe" ->
            Returned(calculate_recipe_tree_by_recipe(request.id, request.amount,
                                                     request.depth, request.max_depth))

\* The queries of task t that the database has not answered yet.
Outstanding(t) == {l \in lookups : l.task = t}

\* The frames of task t that are activations of calculate_recipe_tree_by_recipe
\* inside the loop over consumed_items.
LoopFrames(t) ==
    {n \in 1..Len(tasks[t].stack) :
        /\ tasks[t].stack[n].fn = "calculate_recipe_tree_by_recipe"
        /\ tasks[t].stack[n].pc \in {"consumed_item_orm", "call"}}

\* What the call made for row j of the loop of frame f returns.
SubTree(f, j) ==
    calculate_recipe_tree_by_item(f.recipe_orm.consumed_items[j].item_id,
        f.recipe_orm.consumed_items[j].amount * f.recipe_runs, f.depth + 1, f.max_depth)

\* The sub-trees of rows 1..n of the loop of frame f.
SubTrees(f, n) == [j \in 1..n |-> SubTree(f, j)]

DirectCalls == {"calculate_recipe_tree_by_item", "calculate_recipe_tree_by_recipe"}

(* C13: a call of calculate_recipe_tree_by_item or _by_recipe with         *)
(* depth > max_depth returns ([], []) and sends no query; no coroutine      *)
(* with depth > max_depth ever awaits; every step of a result has          *)
(* depth <= max_depth; and a request whose expansion is cut off is         *)
(* answered with a result as if it were not.                               *)

C13_DepthGuard ==
    \A t \in Tasks :
        /\ (tasks[t].request.op \in DirectCalls
                /\ tasks[t].request.depth > tasks[t].request.max_depth) =>
              /\ tasks[t].status = "done"
              /\ tasks[t].response = Returned(Tree(<<>>, <<>>))
              /\ tasks[t].issued = 0
        /\ \A n \in 1..Len(tasks[t].stack) :
              tasks[t].stack[n].depth <= tasks[t].stack[n].max_depth
        /\ tasks[t].status = "done" =>
              /\ \A k \in 1..Len(tasks[t].response.steps) :
                    tasks[t].response.steps[k].depth <= tasks[t].request.max_depth
              /\ tasks[t].request.op \in DirectCalls => tasks[t].response.status = 1
              /\ tasks[t].response.status = ResponseAlone(tasks[t].request).status

\* A call at depth 1 with max_depth 0 has returned ([], []) without a query,
\* and another task's expansion of a cyclic catalog was cut off below
\* max_depth: its deepest step consumes an item that has a recipe.
C13_Witness ==
    \E t, u \in Tasks :
        /\ tasks[t].status = "done"
        /\ tasks[t].request.op = "calculate_recipe_tree_by_recipe"
        /\ tasks[t].request.depth > tasks[t].request.max_depth
        /\ GetRecipeById(tasks[t].request.id).consumed_items # <<>>
        /\ tasks[t].issued = 0
        /\ tasks[u].status = "done"
        /\ tasks[u].request.op = "calculate_recipe_tree_by_item"
        /\ tasks[u].response.steps # <<>>
        /\ LET last == tasks[u].response.steps[Len(tasks[u].response.steps)]
           IN /\ last.depth = tasks[u].request.max_depth
              /\ SuitableRecipeId(GetByItemId(last.items[1].item_id)) # 0

(* C15: every resolution ends, on cyclic catalogs too: the coroutines a    *)
(* task nests run at depths root..max_depth, at most one call of each of   *)
(* the two functions per depth, and a running task eventually is done.     *)

C15_NestingBounded ==
    \A t \in Tasks :
        LET stack == tasks[t].stack
            calls == {n \in 1..Len(stack) : stack[n].fn \in DirectCalls}
        IN /\ \A n \in calls :
                 /\ stack[n].depth >= tasks[t].request.depth
                 /\ stack[n].depth <= tasks[t].request.max_depth
           /\ \A m, n \in calls :
                 m < n => \/ stack[m].depth > stack[n].depth
                          \/ /\ stack[m].depth = stack[n].depth
                             /\ n = m + 1
                             /\ stack[m].fn = "calculate_recipe_tree_by_recipe"
                             /\ stack[n].fn = "calculate_recipe_tree_by_item"
           /\ Cardinality({n \in calls : stack[n].fn = "calculate_recipe_tree_by_recipe"})
                 <= tasks[t].request.max_depth - tasks[t].request.depth + 1

C15_Terminates ==
    /\ []C15_NestingBounded
    /\ \A t \in Tasks : (tasks[t].status = "running") ~> (tasks[t].status = "done")

\* A request for an item that consumes itself through two recipes has been
\* answered: the steps of depths 0 to 10.
C15_Witness ==
    \E t \in Tasks :
        /\ tasks[t].status = "done"
        /\ tasks[t].request.op = "get_item_recipe_tree"
        /\ tasks[t].response.status = 200
        /\ Len(tasks[t].response.steps) = DefaultMaxDepth + 1
        /\ \E k \in 2..Len(tasks[t].response.steps) :
              tasks[t].response.steps[k].items[1].item_id = tasks[t].request.id

(* C16: two requests with the same root id, amount and max_depth, handled  *)
(* over the same game data, are answered identically: recipe_id, item_id,  *)
(* item_name, steps and base_materials, in the same order.                 *)

C17_NoInterference ==
    \A t \in Tasks :
        /\ tasks[t].status = "done" => tasks[t].response = ResponseAlone(tasks[t].request)
        /\ \A n \in LoopFrames(t) :
              LET f == tasks[t].stack[n]
              IN /\ f.base_materials = MergeSubs(SubTrees(f, f.i - 1), f.i - 1)
                 /\ f.steps = ExtendSteps(SubTrees(f, f.i - 1), f.i - 1)

\* One task has been answered with steps and base materials while another,
\* handling a different request, is in the middle of its loop with base
\* materials of its own.
C17_Witness ==
    \E t, u \in Tasks :
        /\ tasks[t].status = "done"
        /\ tasks[t].response.status = 200
        /\ tasks[t].response.steps # <<>>
        /\ tasks[t].response.base_materials # <<>>
        /\ tasks[u].status = "running"
        /\ tasks[u].request # tasks[t].request
        /\ \E n \in LoopFrames(u) :
              /\ tasks[u].stack[n].base_materials # <<>>
              /\ tasks[u].stack[n].base_materials # tasks[t].response.base_materials

(* C18: a task has at most one query outstanding, awaited by its innermost *)
(* coroutine while every outer one awaits the call it made; and when the   *)
(* loop over consumed_items looks up the item of row i, the sub-trees of   *)
(* rows 1..i-1 are expanded and merged in full, and nothing of row i or of *)
(* a later row is.                                                         *)

C18_SequentialLookups ==
    \A t \in Tasks :
        LET stack == tasks[t].stack
        IN /\ Cardinality(Outstanding(t)) <= 1
           /\ tasks[t].status = "running" <=> Outstanding(t) # {}
           /\ \A n \in 1..Len(stack) : stack[n].pc = "call" <=> n > 1
           /\ \A n \in LoopFrames(t) :
                 LET f == stack[n]
                 IN /\ f.i \in 1..Len(f.recipe_orm.consumed_items)
                    /\ f.pc = "consumed_item_orm" =>
                          /\ Outstanding(t) =
                                Sent(t, {Lookup("game_items",
                                                f.recipe_orm.consumed_items[f.i].item_id)})
                          /\ Len(f.current_step_items) = f.i - 1
                    /\ f.pc = "call" => Len(f.current_step_items) = f.i
                    /\ f.steps = ExtendSteps(SubTrees(f, f.i - 1), f.i - 1)
                    /\ f.base_materials = MergeSubs(SubTrees(f, f.i - 1), f.i - 1)

\* The item of the second row is being looked up: the sub-tree of the first
\* row is merged, and two tasks are at an await at once.
C18_Witness ==
    \E t, u \in Tasks :
        /\ t # u
        /\ tasks[u].status = "running"
        /\ tasks[t].status = "running"
        /\ LET f == Top(tasks[t].stack)
           IN /\ f.fn = "calculate_recipe_tree_by_recipe"
              /\ f.pc = "consumed_item_orm"
              /\ f.i = 2
              /\ f.base_materials = SubTree(f, 1).base_materials
              /\ f.base_materials # <<>>
              /\ Len(f.current_step_items) = 1

(* C20: while the loop over consumed_items of a call runs, its             *)
(* base_materials only grow: from one await to the next no entry is        *)
(* removed or moved, new entries are appended, and no amount decreases.    *)

\* base_materials then is base_materials now with amounts raised and entries
\* appended.
OnlyGrown(now, then) ==
    /\ Len(then) >= Len(now)
    /\ \A k \in 1..Len(now) :
          /\ then[k].item_id = now[k].item_id
          /\ then[k].amount >= now[k].amount

\* The frame of task t that is the n-th from the outermost, now and after
\* the step.
FrameNow(t, n) == tasks[t].stack[Len(tasks[t].stack) + 1 - n]
FrameThen(t, n) == tasks'[t].stack[Len(tasks'[t].stack) + 1 - n]

\* The outermost call of calculate_recipe_tree_by_recipe of task t is its
\* n-th frame, and the step ends it: what it returns is in the answer.
OutermostReturns(t, n) ==
    /\ tasks'[t].status = "done"
    /\ tasks'[t].response.status \in {200, 1}
    /\ \A m \in 1..(n - 1) : FrameNow(t, m).fn # "calculate_recipe_tree_by_recipe"

C20_AccumulatorOnlyGrows ==
    [][\A t \in Tasks :
          \A n \in 1..Len(tasks[t].stack) :
             FrameNow(t, n).fn = "calculate_recipe_tree_by_recipe" =>
                /\ n <= Len(tasks'[t].stack) =>
                      OnlyGrown(FrameNow(t, n).base_materials, FrameThen(t, n).base_materials)
                /\ OutermostReturns(t, n) =>
                      OnlyGrown(FrameNow(t, n).base_materials,
                                tasks'[t].response.base_materials)]_vars

-----------------------------------------------------------------------------
(* C23: a consumed item that game_items does not hold never makes a        *)
(* request fail.  The step item carries the name "Unknown Item <id>" and   *)
(* consumed amount * recipe runs; when the item has no producer rows and   *)
(* its call is not cut off, a base material with that name carries the     *)
(* amount of its step items.                                               *)

\* Every entry of items that names an item game_items does not hold carries
\* the placeholder name.
PlaceholderNames(items) ==
    \A i \in 1..Len(items) :
        ~ItemExists(items[i].item_id) =>
            items[i].item_name = <<"Unknown Item", items[i].item_id>>

\* What a request answers with a result shows for its unknown items.
UnknownItemsNamed ==
    HasResult =>
        /\ \A k \in 1..Len(response.steps) : PlaceholderNames(response.steps[k].items)
        /\ PlaceholderNames(response.base_materials)
        /\ ExpandedRecipe =>
              LET recipe_orm == GetRecipeById(RootRecipeId)
                  consumed_items == recipe_orm.consumed_items
                  recipe_runs == RecipeRuns(recipe_orm, call.amount)
              IN \A i \in 1..Len(consumed_items) :
                    ~ItemExists(consumed_items[i].item_id) =>
                        /\ response.steps[1].items[i] =
                              RecipeTreeItem(consumed_items[i].item_id,
                                  <<"Unknown Item", consumed_items[i].item_id>>,
                                  consumed_items[i].amount * recipe_runs, FALSE)
                        /\ (NotTruncated /\ GetByItemId(consumed_items[i].item_id) = <<>>) =>
                              \E j \in 1..Len(response.base_materials) :
                                  response.base_materials[j] =
                                      RecipeTreeItem(consumed_items[i].item_id,
                                          <<"Unknown Item", consumed_items[i].item_id>>,
                                          AmountInSteps(response.steps,
                                                        consumed_items[i].item_id), TRUE)

\* C23 as claimed: with the above, a request is answered NotFound only when
\* the id of its root is unknown.
C23_OnlyUnknownRootNotFound ==
    /\ UnknownItemsNamed
    /\ (call.op # "none" /\ ~HasResult) =>
          \/ call.op = "get_item_recipe_tree" /\ ~ItemExists(call.id)
          \/ call.op = "get_recipe_tree" /\ GetRecipeById(call.id).id = 0

\* C23 as amended: a request fails only on the tests of its root: 404 for a
\* root item that is unknown or has no non-reforging recipe, 404 for an
\* unknown root recipe, 400 for a root recipe that produces nothing.
C23_UnknownConsumedItemNamed ==
    /\ UnknownItemsNamed
    /\ call.op = "get_item_recipe_tree" =>
          response.status = IF ~ItemExists(call.id) \/ FirstNonReforging(call.id) = 0
                            THEN 404 ELSE 200
    /\ call.op = "get_recipe_tree" =>
          response.status = IF GetRecipeById(call.id).id = 0 THEN 404
                            ELSE IF GetRecipeById(call.id).produced_items = <<>> THEN 400
                            ELSE 200
    /\ call.op \in DirectCalls => response.status = 1

\* An item made from an unknown item was requested through the entry point:
\* the unknown item is a step item and a base material, 2 runs of 1 each.
C23_Witness ==
    /\ call.op = "get_item_recipe_tree"
    /\ call.amount = 3
    /\ response.status = 200
    /\ response.steps =
          <<RecipeTreeStep(0, <<RecipeTreeItem(UnknownItem, <<"Unknown Item", UnknownItem>>,
                                               2, FALSE)>>)>>
    /\ response.base_materials =
          <<RecipeTreeItem(UnknownItem, <<"Unknown Item", UnknownItem>>, 2, TRUE)>>

(* C24: steps and base materials agree when no recipe is cut off: if every *)
(* recipe reachable from the root lies at a depth <= max_depth, every step *)
(* item without a usable recipe has a base material whose amount is at     *)
(* least the step item's.                                                  *)

RECURSIVE RecipeSkipped(_, _, _)
\* The call for item_id at depth would expand a recipe, there or below, at a
\* depth > max_depth.
RecipeSkipped(item_id, depth, max_depth) ==
    LET suitable_recipe_id == SuitableRecipeId(GetByItemId(item_id))
        consumed_items == GetRecipeById(suitable_recipe_id).consumed_items
    IN IF suitable_recipe_id = 0 THEN FALSE
       ELSE IF depth > max_depth THEN TRUE
       ELSE \E i \in 1..Len(consumed_items) :
               RecipeSkipped(consumed_items[i].item_id, depth + 1, max_depth)

\* Every recipe reachable from the root of the request lies at a
\* depth <= max_depth.
NoRecipeSkipped ==
    /\ call.depth <= call.max_depth
    /\ call.op \in ByItemOps => ~RecipeSkipped(call.id, call.depth, call.max_depth)
    /\ call.op \in ByRecipeOps =>
          \A i \in 1..Len(GetRecipeById(call.id).consumed_items) :
              ~RecipeSkipped(GetRecipeById(call.id).consumed_items[i].item_id,
                             call.depth + 1, call.max_depth)

\* Every step item without a usable recipe has a base material that covers it.
StepItemsCovered ==
    \A k \in 1..Len(response.steps) :
        \A i \in 1..Len(response.steps[k].items) :
            LET item == response.steps[k].items[i]
            IN SuitableRecipeId(GetByItemId(item.item_id)) = 0 =>
                  \E j \in 1..Len(response.base_materials) :
                      /\ response.base_materials[j].item_id = item.item_id
                      /\ response.base_materials[j].amount >= item.amount

\* C24, for amounts >= 1.
C24_CoveredWhenNoRecipeSkipped ==
    (HasResult /\ call.amount >= 1 /\ NoRecipeSkipped) => StepItemsCovered

-----------------------------------------------------------------------------
(* Crafting projects: the handlers of src/api/routes/crafting.py over the  *)
(* tables of src/api/models/crafting.py.  get_current_user names the user  *)
(* of a request; user n carries discord id n.                              *)

Users == 1..NumUsers

\* A discord id no row of users carries.
UnknownDiscordId == NumUsers + 1
DiscordIds == 1..UnknownDiscordId

\* public_uuid = uuid4(), private_uuid = uuid4(): two values no other project has
PublicUuid(project_id) == <<"public", project_id>>
PrivateUuid(project_id) == <<"private", project_id>>

\* The UUIDs requests are addressed with: those of the projects, and those of
\* a project that is never created.
Uuids ==
    UNION {{PublicUuid(project_id), PrivateUuid(project_id)} :
              project_id \in 1..(MaxProjects + 1)}

CraftingItemIds == 1..2
CraftingCounts == 1..2

CraftingProjectOwnership(project_id, user_id) == [project_id |-> project_id, user_id |-> user_id]

CraftingProjectItem(project_id, item_id, count) ==
    [project_id |-> project_id, item_id |-> item_id, count |-> count]

CraftingResponse(op, uuid, item_id, status) ==
    [op |-> op, uuid |-> uuid, item_id |-> item_id, status |-> status]

\* CraftingProjectOrm.get_project_by_uuid: the project whose public_uuid or
\* private_uuid is project_uuid; 0 for None.
ProjectByUuid(project_uuid) ==
    IF project_uuid[2] \in crafting_projects THEN project_uuid[2] ELSE 0

\* CraftingProjectOrm.user_is_owner
user_is_owner(project_id, user_id) ==
    CraftingProjectOwnership(project_id, user_id) \in crafting_project_owners

\* CraftingProjectItemOrm.get_project_items
get_project_items(project_id) ==
    SelectSeq(crafting_project_items, LAMBDA row : row.project_id = project_id)

\* The positions of the rows CraftingProjectItemOrm.get_project_item selects.
ProjectItemRows(project_id, item_id) ==
    {k \in 1..Len(crafting_project_items) :
        /\ crafting_project_items[k].project_id = project_id
        /\ crafting_project_items[k].item_id = item_id}

\* The delete without the filter on item_id: every row of the project.
DeleteProjectRows(project_id, item_id) ==
    SelectSeq(crafting_project_items, LAMBDA row : row.project_id # project_id)

\* delete(CraftingProjectItemOrm).where(project_id == ..., item_id == ...)
DeleteItemRows(project_id, item_id) ==
    SelectSeq(crafting_project_items,
              LAMBDA row : ~(row.project_id = project_id /\ row.item_id = item_id))

\* The resolver and the groups take no part.
OnlyCrafting ==
    UNCHANGED <<game_items, game_item_recipes, call, response, tasks, lookups, project_vars>>

\* POST /crafting/projects
crafting_create_project(current_user) ==
    /\ Cardinality(crafting_projects) < MaxProjects
    /\ LET project_id == Cardinality(crafting_projects) + 1
       IN /\ crafting_projects' = crafting_projects \cup {project_id}
          /\ crafting_project_owners' =
                crafting_project_owners \cup {CraftingProjectOwnership(project_id, current_user)}
          /\ crafting_response' =
                CraftingResponse("create_project", PrivateUuid(project_id), 0, 200)
    /\ UNCHANGED <<crafting_project_items, owner_tasks>>
    /\ OnlyCrafting

\* GET /crafting/projects/{project_uuid}/items
crafting_get_project_items(project_uuid) ==
    /\ crafting_response' =
          CraftingResponse("get_project_items", project_uuid, 0,
                           IF ProjectByUuid(project_uuid) = 0 THEN 404 ELSE 200)
    /\ UNCHANGED <<crafting_projects, crafting_project_owners, crafting_project_items,
                   owner_tasks>>
    /\ OnlyCrafting

\* POST /crafting/projects/{project_uuid}/items
crafting_add_item_to_project(project_uuid, item_id, count, current_user) ==
    LET project_id == ProjectByUuid(project_uuid)
        status == IF project_id = 0 THEN 404
                  ELSE IF ~user_is_owner(project_id, current_user) THEN 403
                  ELSE 200
    IN /\ status = 200 => Len(crafting_project_items) < MaxRows
       /\ crafting_project_items' =
             IF status = 200
             THEN Append(crafting_project_items,
                         CraftingProjectItem(project_id, item_id, count))
             ELSE crafting_project_items
       /\ crafting_response' = CraftingResponse("add_item_to_project", project_uuid, item_id, status)
       /\ UNCHANGED <<crafting_projects, crafting_project_owners, owner_tasks>>
       /\ OnlyCrafting

\* DELETE /crafting/projects/{project_uuid}/items/{item_id}
crafting_remove_item_from_project(project_uuid, item_id, current_user) ==
    LET project_id == ProjectByUuid(project_uuid)
        status == IF project_id = 0 THEN 404
                  ELSE IF ~user_is_owner(project_id, current_user) THEN 403
                  ELSE 200
    IN /\ crafting_project_items' =
             IF status = 200 THEN DeleteItemRows(project_id, item_id)
             ELSE crafting_project_items
       /\ crafting_response' =
             CraftingResponse("remove_item_from_project", project_uuid, item_id, status)
       /\ UNCHANGED <<crafting_projects, crafting_project_owners, owner_tasks>>
       /\ OnlyCrafting

\* PUT /crafting/projects/{project_uuid}/items/{item_id}/count; scalar_one_or_none
\* raises when several rows match, outside the handler's try: 500.
crafting_update_item_count(project_uuid, item_id, count, current_user) ==
    LET project_id == ProjectByUuid(project_uuid)
        rows == ProjectItemRows(project_id, item_id)
        status == IF project_id = 0 THEN 404
                  ELSE IF Cardinality(rows) > 1 THEN 500
                  ELSE IF rows = {} THEN 404
                  ELSE IF ~user_is_owner(project_id, current_user) THEN 403
                  ELSE 200
    IN /\ crafting_project_items' =
             IF status = 200
             THEN [crafting_project_items EXCEPT ![CHOOSE k \in rows : TRUE].count = count]
             ELSE crafting_project_items
       /\ crafting_response' = CraftingResponse("update_item_count", project_uuid, item_id, status)
       /\ UNCHANGED <<crafting_projects, crafting_project_owners, owner_tasks>>
       /\ OnlyCrafting

\* POST /crafting/projects/{project_uuid}/owners
crafting_add_project_owner(project_uuid, discord_id, current_user) ==
    LET project_id == ProjectByUuid(project_uuid)
        status == IF project_id = 0 THEN 404
                  ELSE IF ~user_is_owner(project_id, current_user) THEN 403
                  ELSE IF discord_id \notin Users THEN 403
                  ELSE 200
    IN /\ crafting_project_owners' =
             IF status = 200
             THEN crafting_project_owners \cup {CraftingProjectOwnership(project_id, discord_id)}
             ELSE crafting_project_owners
       /\ crafting_response' = CraftingResponse("add_project_owner", project_uuid, 0, status)
       /\ UNCHANGED <<crafting_projects, crafting_project_items, owner_tasks>>
       /\ OnlyCrafting

\* The handler of a remove-owner request has ended with this status.
OwnerTaskDone(task, status) == [task EXCEPT !.pc = "done", !.status = status]

\* DELETE /crafting/projects/{project_uuid}/owners/{discord_id}, up to the
\* call of remove_owner_by_discord_id.
BeginRemoveOwner(project_uuid, discord_id, current_user) ==
    LET task == [IdleOwnerTask EXCEPT !.project_id = ProjectByUuid(project_uuid),
                                      !.discord_id = discord_id,
                                      !.requester_user_id = current_user]
    IN IF task.project_id = 0 THEN OwnerTaskDone(task, 404)
       ELSE [task EXCEPT !.pc = "requester_ownership"]

\* if len(list(ownership_count.scalars().all())) <= 1
IsLastOwner(task, owners) ==
    Cardinality({o \in owners : o.project_id = task.project_id}) <= 1

\* remove_owner_by_discord_id from one await to the next, over the
\* crafting_project_owners rows as owners: the task and the rows after it.
RemoveOwnerStep(task, owners) ==
    CASE task.pc = "requester_ownership" ->
            [owners |-> owners,
             task |-> IF CraftingProjectOwnership(task.project_id, task.requester_user_id)
                            \notin owners
                      THEN OwnerTaskDone(task, 403)
                      ELSE [task EXCEPT !.pc = "user_to_remove"]]
      [] task.pc = "user_to_remove" ->
            [owners |-> owners,
             task |-> IF task.discord_id \notin Users THEN OwnerTaskDone(task, 403)
                      ELSE [task EXCEPT !.user_to_remove = task.discord_id,
                                        !.pc = "ownership_count"]]
      [] task.pc = "ownership_count" ->
            [owners |-> owners,
             task |-> IF IsLastOwner(task, owners) THEN OwnerTaskDone(task, 403)
                      ELSE [task EXCEPT !.pc = "ownership_to_remove"]]
      [] task.pc = "ownership_to_remove" ->
            [owners |-> owners,
             task |-> IF CraftingProjectOwnership(task.project_id, task.user_to_remove)
                            \in owners
                      THEN [task EXCEPT !.pc = "commit"]
                      ELSE OwnerTaskDone(task, 200)]
      [] task.pc = "commit" ->
            [owners |-> owners \ {CraftingProjectOwnership(task.project_id,
                                                           task.user_to_remove)},
             task |-> OwnerTaskDone(task, 200)]

RECURSIVE RunRemoveOwner(_, _)
\* The handler run from task to its end with no other request in between.
RunRemoveOwner(task, owners) ==
    IF task.pc = "done" THEN [owners |-> owners, task |-> task]
    ELSE LET after == RemoveOwnerStep(task, owners)
         IN RunRemoveOwner(after.task, after.owners)

\* DELETE /crafting/projects/{project_uuid}/owners/{discord_id}, handled
\* while no other request is.
crafting_remove_project_owner(project_uuid, discord_id, current_user) ==
    LET ran == RunRemoveOwner(BeginRemoveOwner(project_uuid, discord_id, current_user),
                              crafting_project_owners)
    IN /\ crafting_project_owners' = ran.owners
       /\ crafting_response' =
             CraftingResponse("remove_project_owner", project_uuid, 0, ran.task.status)
       /\ UNCHANGED <<crafting_projects, crafting_project_items, owner_tasks>>
       /\ OnlyCrafting

\* DELETE /crafting/projects/{project_uuid}: CraftingProjectOrm has no
\* delete_project, the AttributeError is answered 500.
crafting_delete_project(project_uuid, current_user) ==
    /\ crafting_response' = CraftingResponse("delete_project", project_uuid, 0, 500)
    /\ UNCHANGED <<crafting_projects, crafting_project_owners, crafting_project_items,
                   owner_tasks>>
    /\ OnlyCrafting

CraftingInit ==
    /\ game_items = 1..NumItems
    /\ game_item_recipes = <<>>
    /\ call = NoCall
    /\ response = NoResponse
    /\ tasks = [t \in Tasks |-> IdleTask]
    /\ lookups = {}
    /\ NoCraftingData
    /\ NoProjectData

CraftingNext ==
    \/ \E current_user \in Users : crafting_create_project(current_user)
    \/ \E project_uuid \in Uuids : crafting_get_project_items(project_uuid)
    \/ \E project_uuid \in Uuids, item_id \in CraftingItemIds, current_user \in Users :
          crafting_add_item_to_project(project_uuid, item_id, 1, current_user)
    \/ \E project_uuid \in Uuids, item_id \in CraftingItemIds, current_user \in Users :
          crafting_remove_item_from_project(project_uuid, item_id, current_user)
    \/ \E project_uuid \in Uuids, item_id \in CraftingItemIds, count \in CraftingCounts,
          current_user \in Users :
          crafting_update_item_count(project_uuid, item_id, count, current_user)
    \/ \E project_uuid \in Uuids, discord_id \in DiscordIds, current_user \in Users :
          crafting_add_project_owner(project_uuid, discord_id, current_user)
    \/ \E project_uuid \in Uuids, discord_id \in DiscordIds, current_user \in Users :
          crafting_remove_project_owner(project_uuid, discord_id, current_user)
    \/ \E project_uuid \in Uuids, current_user \in Users :
          crafting_delete_project(project_uuid, current_user)

CraftingSpec == CraftingInit /\ [][CraftingNext]_vars

(* Remove-owner requests handled at the same time: each await of           *)
(* remove_owner_by_discord_id is a step, and the awaits of the requests    *)
(* interleave.                                                             *)

\* A remove-owner request arrives and runs to its first query.
StartRemoveOwner(t, project_uuid, discord_id, current_user) ==
    /\ owner_tasks[t].pc = "idle"
    /\ owner_tasks' =
          [owner_tasks EXCEPT ![t] = BeginRemoveOwner(project_uuid, discord_id, current_user)]
    /\ UNCHANGED <<crafting_projects, crafting_project_owners, crafting_project_items,
                   crafting_response>>
    /\ OnlyCrafting

\* The query task t awaits is answered and the task runs to its next await.
AwaitRemoveOwner(t) ==
    /\ owner_tasks[t].pc \notin {"idle", "done"}
    /\ LET after == RemoveOwnerStep(owner_tasks[t], crafting_project_owners)
       IN /\ owner_tasks' = [owner_tasks EXCEPT ![t] = after.task]
          /\ crafting_project_owners' = after.owners
    /\ UNCHANGED <<crafting_projects, crafting_project_items, crafting_response>>
    /\ OnlyCrafting

\* The answer of task t is sent.
RespondRemoveOwner(t) ==
    /\ owner_tasks[t].pc = "done"
    /\ owner_tasks' = [owner_tasks EXCEPT ![t] = IdleOwnerTask]
    /\ crafting_response' =
          CraftingResponse("remove_project_owner", PrivateUuid(owner_tasks[t].project_id), 0,
                           owner_tasks[t].status)
    /\ UNCHANGED <<crafting_projects, crafting_project_owners, crafting_project_items>>
    /\ OnlyCrafting

OwnerNext ==
    \/ \E current_user \in Users : crafting_create_project(current_user)
    \/ \E discord_id \in DiscordIds, current_user \in Users :
          crafting_add_project_owner(PrivateUuid(1), discord_id, current_user)
    \/ \E t \in Tasks, project_uuid \in {PrivateUuid(1), PrivateUuid(MaxProjects + 1)},
          discord_id \in DiscordIds, current_user \in Users :
          StartRemoveOwner(t, project_uuid, discord_id, current_user)
    \/ \E t \in Tasks : AwaitRemoveOwner(t)
    \/ \E t \in Tasks : RespondRemoveOwner(t)

OwnerSpec == CraftingInit /\ [][OwnerNext]_vars

-----------------------------------------------------------------------------
(* C21: a crafting project's public UUID is read-only.  An add-item,       *)
(* remove-item or update-count request addressed with the public UUID of a *)
(* project is not answered 200 and leaves crafting_project_items as they   *)
(* were.  (The claim names the status, 403; the formula asks only for a    *)
(* rejection.)  The handlers look the project up by either UUID and never  *)
(* read is_private, so an owner's request with the public UUID is carried  *)
(* out.                                                                    *)

ModifyingOps == {"add_item_to_project", "remove_item_from_project", "update_item_count"}

C21_PublicUuidReadOnly ==
    [][(/\ crafting_response'.op \in ModifyingOps
        /\ crafting_response'.uuid[1] = "public"
        /\ crafting_response'.uuid[2] \in crafting_projects)
       => /\ crafting_response'.status # 200
          /\ crafting_project_items' = crafting_project_items]_vars

-----------------------------------------------------------------------------
(* C22: the item ids listed for a crafting project are those added and not *)
(* removed since.  A new project lists none; a successful add-item of i    *)
(* adds i to the listed ids, a successful remove-item of i takes i and     *)
(* nothing else away, a successful update-count leaves them as they were,  *)
(* and none of them touches the listing of another project.                *)

\* The item ids GET /crafting/projects/{project_uuid}/items lists, over rows.
ListedIds(rows, project_id) ==
    {rows[k].item_id : k \in {j \in 1..Len(rows) : rows[j].project_id = project_id}}

C22_ListedIdsFollowOperations ==
    [][LET answer == crafting_response'
           project_id == answer.uuid[2]
           before == ListedIds(crafting_project_items, project_id)
           after == ListedIds(crafting_project_items', project_id)
       IN /\ answer.op = "create_project" => after = {}
          /\ (answer.op = "add_item_to_project" /\ answer.status = 200)
                => after = before \cup {answer.item_id}
          /\ (answer.op = "remove_item_from_project" /\ answer.status = 200)
                => after = before \ {answer.item_id}
          /\ (answer.op = "update_item_count" /\ answer.status = 200)
                => after = before
          /\ \A other \in crafting_projects \ {project_id} :
                ListedIds(crafting_project_items', other)
                   = ListedIds(crafting_project_items, other)]_vars

\* Item 1 has been removed from project 1 and item 2 is still listed.
C22_Witness ==
    /\ crafting_response.op = "remove_item_from_project"
    /\ crafting_response.status = 200
    /\ crafting_response.item_id = 1
    /\ ListedIds(crafting_project_items, 1) = {2}

-----------------------------------------------------------------------------
(* C25: a crafting project never has zero owners: in every state each      *)
(* project has at least one row of crafting_project_owners, also while     *)
(* remove-owner requests are handled at the same time.  Two owners who     *)
(* remove each other both read two ownership rows before either deletes.   *)

C25_NeverZeroOwners ==
    \A project_id \in crafting_projects :
        Cardinality({o \in crafting_project_owners : o.project_id = project_id}) >= 1

-----------------------------------------------------------------------------
(* Groups and projects: the handlers of src/api/routes/groups.py and       *)
(* src/api/routes/projects.py over the tables of src/api/models/users.py   *)
(* and src/api/models/projects.py.  Each handler runs in one session and   *)
(* commits once; a handler that raises leaves the tables as they were.     *)
(* Status 200 stands for every answer that is not an error.                *)

\* GroupMemberRole; OWNER is never stored in a membership.
MEMBER == "member"
CO_OWNER == "co_owner"

UserGroup(id, owner_id) == [id |-> id, owner_id |-> owner_id]

UserGroupMembership(user_id, user_group_id, role) ==
    [user_id |-> user_id, user_group_id |-> user_group_id, role |-> role]

\* expired stands for datetime.now(UTC) > expires_at
UserGroupInvite(id, user_group_id, owner_id, expired) ==
    [id |-> id, user_group_id |-> user_group_id, owner_id |-> owner_id, expired |-> expired]

\* group_id 0 stands for None
Project(id, name, owner_id, group_id) ==
    [id |-> id, name |-> name, owner_id |-> owner_id, group_id |-> group_id]

ProjectItem(project_id, item_id, count, target_count) ==
    [project_id |-> project_id, item_id |-> item_id, count |-> count,
     target_count |-> target_count]

GroupResponse(op, user_id, group_id, project_id, target, item_id, count, status) ==
    [op |-> op, user_id |-> user_id, group_id |-> group_id, project_id |-> project_id,
     target |-> target, item_id |-> item_id, count |-> count, status |-> status]

\* The ids requests name: those a row can have, and one more.
GroupIds == 1..(MaxGroups + 1)
ProjectIds == 1..(MaxProjects + 1)
ProjectItemIds == {1, 2, UnknownItem}
TargetAmounts == 1..2
RequestedCounts == {-1, 1}

\* The id the table gives its next row: one past the largest.
NextId(rows) ==
    IF rows = {} THEN 1
    ELSE 1 + (CHOOSE n \in {row.id : row \in rows} : \A row \in rows : row.id <= n)

\* select(...).where(id == ...).scalar_one_or_none(), for a row that exists
RowById(rows, id) == CHOOSE row \in rows : row.id = id
HasId(rows, id) == \E row \in rows : row.id = id

\* The membership of the user in the group, as a set of at most one row.
MembershipOf(user_id, group_id) ==
    {m \in user_group_memberships : m.user_id = user_id /\ m.user_group_id = group_id}

\* UserGroupOrm.is_user_in_group
is_user_in_group(group, user_id) ==
    \/ group.owner_id = user_id
    \/ MembershipOf(user_id, group.id) # {}

\* UserGroupOrm.is_user_owner_or_co_owner
is_user_owner_or_co_owner(group, user_id) ==
    \/ group.owner_id = user_id
    \/ \E m \in MembershipOf(user_id, group.id) : m.role = CO_OWNER

\* The owner test passed by co-owners as well.
OwnerOrCoOwner(group, user_id) == is_user_owner_or_co_owner(group, user_id)

\* target_group.owner_id != current_user.id, negated
IsGroupOwner(group, user_id) == group.owner_id = user_id

\* Every user in the group manages its projects.
AnyMemberManages(group, user_id) == is_user_in_group(group, user_id)

\* UserGroupOrm.can_user_manage_group_projects
can_user_manage_group_projects(group, user_id) == is_user_owner_or_co_owner(group, user_id)

\* ProjectOrm.does_user_have_access
does_user_have_access(project, user_id) ==
    \/ project.owner_id = user_id
    \/ /\ project.group_id # 0
       /\ is_user_in_group(RowById(user_groups, project.group_id), user_id)

\* ProjectOrm.can_user_modify
can_user_modify(project, user_id) ==
    IF project.owner_id = user_id THEN TRUE
    ELSE IF project.group_id # 0
         THEN can_user_manage_group_projects(RowById(user_groups, project.group_id), user_id)
         ELSE FALSE

\* The positions of the project_items rows of the item in the project.
ItemRowsOf(project_id, item_id) ==
    {k \in 1..Len(project_items) :
        /\ project_items[k].project_id = project_id
        /\ project_items[k].item_id = item_id}

\* db.delete(row) of the row at position k
WithoutRow(rows, k) == SubSeq(rows, 1, k - 1) \o SubSeq(rows, k + 1, Len(rows))

\* The requested count as it is, not bounded below.
RequestedCount(count) == count

\* max(0, update_data.count)
StoredCount(count) == IF count > 0 THEN count ELSE 0

\* The resolver and the crafting projects take no part.
OnlyGroups ==
    UNCHANGED <<game_items, game_item_recipes, call, response, tasks, lookups, crafting_vars>>

\* POST /groups/
create_group(current_user) ==
    /\ NextId(user_groups) <= MaxGroups
    /\ user_groups' = user_groups \cup {UserGroup(NextId(user_groups), current_user)}
    /\ group_response' =
          GroupResponse("create_group", current_user, NextId(user_groups), 0, 0, 0, 0, 200)
    /\ UNCHANGED <<user_group_memberships, user_group_invites, projects, project_items>>
    /\ OnlyGroups

\* DELETE /groups/{group_id}.  The invites of the group are not deleted with
\* it: the flush sets their user_group_id, which is not nullable, to NULL
\* and the commit raises.
delete_group(group_id, current_user) ==
    LET status == IF ~HasId(user_groups, group_id) THEN 404
                  ELSE IF ~IsGroupOwner(RowById(user_groups, group_id), current_user) THEN 403
                  ELSE IF \E invite \in user_group_invites : invite.user_group_id = group_id
                       THEN 500
                  ELSE 200
    IN /\ group_response' =
             GroupResponse("delete_group", current_user, group_id, 0, 0, 0, 0, status)
       /\ IF status = 200
          THEN /\ user_groups' = {g \in user_groups : g.id # group_id}
               /\ user_group_memberships' =
                     {m \in user_group_memberships : m.user_group_id # group_id}
               /\ projects' =
                     {IF project.group_id = group_id
                      THEN [project EXCEPT !.group_id = 0] ELSE project :
                         project \in projects}
          ELSE UNCHANGED <<user_groups, user_group_memberships, projects>>
       /\ UNCHANGED <<user_group_invites, project_items>>
       /\ OnlyGroups

\* POST /groups/{group_id}/users/{discord_id}
add_user_to_group(group_id, discord_id, current_user) ==
    LET status == IF ~HasId(user_groups, group_id) THEN 404
                  ELSE IF ~IsGroupOwner(RowById(user_groups, group_id), current_user) THEN 403
                  ELSE IF discord_id \notin Users THEN 404
                  ELSE IF MembershipOf(discord_id, group_id) # {} THEN 400
                  ELSE 200
    IN /\ group_response' =
             GroupResponse("add_user_to_group", current_user, group_id, 0, discord_id, 0, 0,
                           status)
       /\ user_group_memberships' =
             IF status = 200
             THEN user_group_memberships \cup {UserGroupMembership(discord_id, group_id, MEMBER)}
             ELSE user_group_memberships
       /\ UNCHANGED <<user_groups, user_group_invites, projects, project_items>>
       /\ OnlyGroups

\* DELETE /groups/{group_id}/users/{discord_id}
remove_user_from_group(group_id, discord_id, current_user) ==
    LET status == IF ~HasId(user_groups, group_id) THEN 404
                  ELSE IF ~IsGroupOwner(RowById(user_groups, group_id), current_user) THEN 403
                  ELSE IF discord_id \notin Users THEN 404
                  ELSE IF MembershipOf(discord_id, group_id) = {} THEN 404
                  ELSE 200
    IN /\ group_response' =
             GroupResponse("remove_user_from_group", current_user, group_id, 0, discord_id, 0,
                           0, status)
       /\ user_group_memberships' =
             IF status = 200
             THEN user_group_memberships \ MembershipOf(discord_id, group_id)
             ELSE user_group_memberships
       /\ UNCHANGED <<user_groups, user_group_invites, projects, project_items>>
       /\ OnlyGroups

\* The checks promote_user_to_co_owner and demote_co_owner_to_member share,
\* in their order; 0 when the membership is found.
MembershipStatus(group_id, discord_id, current_user) ==
    IF ~HasId(user_groups, group_id) THEN 404
    ELSE IF ~IsGroupOwner(RowById(user_groups, group_id), current_user) THEN 403
    ELSE IF discord_id \notin Users THEN 404
    ELSE IF MembershipOf(discord_id, group_id) = {} THEN 404
    ELSE 0

\* membership.role = role; await db.commit()
WithRole(discord_id, group_id, role) ==
    (user_group_memberships \ MembershipOf(discord_id, group_id))
       \cup {UserGroupMembership(discord_id, group_id, role)}

\* POST /groups/{group_id}/co-owners/{discord_id}
promote_user_to_co_owner(group_id, discord_id, current_user) ==
    LET found == MembershipStatus(group_id, discord_id, current_user)
        status == IF found # 0 THEN found
                  ELSE IF \E m \in MembershipOf(discord_id, group_id) : m.role = CO_OWNER
                       THEN 400
                  ELSE 200
    IN /\ group_response' =
             GroupResponse("promote_user_to_co_owner", current_user, group_id, 0, discord_id,
                           0, 0, status)
       /\ user_group_memberships' =
             IF status = 200 THEN WithRole(discord_id, group_id, CO_OWNER)
             ELSE user_group_memberships
       /\ UNCHANGED <<user_groups, user_group_invites, projects, project_items>>
       /\ OnlyGroups

\* DELETE /groups/{group_id}/co-owners/{discord_id}
demote_co_owner_to_member(group_id, discord_id, current_user) ==
    LET found == MembershipStatus(group_id, discord_id, current_user)
        status == IF found # 0 THEN found
                  ELSE IF \E m \in MembershipOf(discord_id, group_id) : m.role # CO_OWNER
                       THEN 400
                  ELSE 200
    IN /\ group_response' =
             GroupResponse("demote_co_owner_to_member", current_user, group_id, 0, discord_id,
                           0, 0, status)
       /\ user_group_memberships' =
             IF status = 200 THEN WithRole(discord_id, group_id, MEMBER)
             ELSE user_group_memberships
       /\ UNCHANGED <<user_groups, user_group_invites, projects, project_items>>
       /\ OnlyGroups

\* POST /groups/{group_id}/invites.  create_invite is called without await:
\* the handler reads invite.id of a coroutine that never runs, and no invite
\* is stored.
create_group_invite(group_id, current_user) ==
    LET status == IF ~HasId(user_groups, group_id) THEN 404
                  ELSE IF ~is_user_owner_or_co_owner(RowById(user_groups, group_id),
                                                      current_user) THEN 403
                  ELSE 500
    IN /\ group_response' =
             GroupResponse("create_group_invite", current_user, group_id, 0, 0, 0, 0, status)
       /\ UNCHANGED <<user_groups, user_group_memberships, user_group_invites, projects,
                      project_items>>
       /\ OnlyGroups

\* POST /groups/invites/{invite_code}/join.  get_valid_invite_by_code is
\* called without await: the handler reads invite.user_group of a coroutine.
join_group_with_invite(invite_code, current_user) ==
    /\ group_response' =
          GroupResponse("join_group_with_invite", current_user, 0, 0, invite_code, 0, 0, 500)
    /\ UNCHANGED <<user_groups, user_group_memberships, user_group_invites, projects,
                   project_items>>
    /\ OnlyGroups

\* await UserGroupInviteOrm.create_invite(db, user_group_id, owner_id), by a
\* caller that awaits it.
create_invite(user_group_id, owner_id) ==
    /\ HasId(user_groups, user_group_id)
    /\ NextId(user_group_invites) <= MaxInvites
    /\ user_group_invites' =
          user_group_invites \cup
             {UserGroupInvite(NextId(user_group_invites), user_group_id, owner_id, FALSE)}
    /\ group_response' =
          GroupResponse("create_invite", owner_id, user_group_id, 0,
                        NextId(user_group_invites), 0, 0, 200)
    /\ UNCHANGED <<user_groups, user_group_memberships, projects, project_items>>
    /\ OnlyGroups

\* The clock passes expires_at of the invite.
InviteExpires(invite_id) ==
    /\ HasId(user_group_invites, invite_id)
    /\ ~RowById(user_group_invites, invite_id).expired
    /\ user_group_invites' =
          {IF invite.id = invite_id THEN [invite EXCEPT !.expired = TRUE] ELSE invite :
              invite \in user_group_invites}
    /\ group_response' = GroupResponse("expires", 0, 0, 0, invite_id, 0, 0, 0)
    /\ UNCHANGED <<user_groups, user_group_memberships, projects, project_items>>
    /\ OnlyGroups

\* UserGroupInviteOrm.is_valid
is_valid(invite) == ~invite.expired

\* The rows of user_group_invites after use_invite.  AsyncSession.delete is
\* a coroutine function and use_invite calls it without await: the invite is
\* never marked for deletion and the commit keeps it.
InvitesAfterUse(invite) == user_group_invites

\* await invite.use_invite(db, user_id), on an invite loaded with its group
\* and the group's memberships; status 200 for True, 400 for False.
use_invite(invite_id, user_id) ==
    /\ HasId(user_group_invites, invite_id)
    /\ LET invite == RowById(user_group_invites, invite_id)
           user_group == RowById(user_groups, invite.user_group_id)
           status == IF ~is_valid(invite) THEN 400
                     ELSE IF is_user_in_group(user_group, user_id) THEN 400
                     ELSE 200
       IN /\ group_response' =
                GroupResponse("use_invite", user_id, invite.user_group_id, 0, invite_id, 0, 0,
                              status)
          /\ user_group_memberships' =
                IF status = 200
                THEN user_group_memberships \cup
                        {UserGroupMembership(user_id, invite.user_group_id, MEMBER)}
                ELSE user_group_memberships
          /\ user_group_invites' =
                IF status = 200 THEN InvitesAfterUse(invite) ELSE user_group_invites
    /\ UNCHANGED <<user_groups, projects, project_items>>
    /\ OnlyGroups

\* GET /projects/{project_id}
get_project(project_id, current_user) ==
    LET status == IF ~HasId(projects, project_id) THEN 404
                  ELSE IF ~does_user_have_access(RowById(projects, project_id), current_user)
                       THEN 403
                  ELSE 200
    IN /\ group_response' =
             GroupResponse("get_project", current_user, 0, project_id, 0, 0, 0, status)
       /\ UNCHANGED <<user_groups, user_group_memberships, user_group_invites, projects,
                      project_items>>
       /\ OnlyGroups

\* POST /projects/; group_id 0 stands for a request without group_id
create_project(name, group_id, current_user) ==
    LET status == IF group_id = 0 THEN 200
                  ELSE IF ~HasId(user_groups, group_id) THEN 404
                  ELSE IF ~is_user_owner_or_co_owner(RowById(user_groups, group_id),
                                                      current_user) THEN 403
                  ELSE 200
    IN /\ status = 200 => NextId(projects) <= MaxProjects
       /\ group_response' =
             GroupResponse("create_project", current_user, group_id,
                           IF status = 200 THEN NextId(projects) ELSE 0, 0, 0, 0, status)
       /\ projects' =
             IF status = 200
             THEN projects \cup {Project(NextId(projects), name, current_user, group_id)}
             ELSE projects
       /\ UNCHANGED <<user_groups, user_group_memberships, user_group_invites, project_items>>
       /\ OnlyGroups

\* The checks the handlers of one project start with; 0 when they pass.
ModifyStatus(project_id, current_user) ==
    IF ~HasId(projects, project_id) THEN 404
    ELSE IF ~can_user_modify(RowById(projects, project_id), current_user) THEN 403
    ELSE 0

\* PUT /projects/{project_id}
update_project(project_id, name, current_user) ==
    LET checked == ModifyStatus(project_id, current_user)
        status == IF checked # 0 THEN checked ELSE 200
    IN /\ group_response' =
             GroupResponse("update_project", current_user, 0, project_id, 0, 0, 0, status)
       /\ projects' =
             IF status = 200
             THEN {IF project.id = project_id THEN [project EXCEPT !.name = name]
                   ELSE project : project \in projects}
             ELSE projects
       /\ UNCHANGED <<user_groups, user_group_memberships, user_group_invites, project_items>>
       /\ OnlyGroups

\* DELETE /projects/{project_id}.  The items of the project are not deleted
\* with it: the flush sets their project_id, which is not nullable, to NULL
\* and the commit raises.
delete_project(project_id, current_user) ==
    LET checked == ModifyStatus(project_id, current_user)
        status == IF checked # 0 THEN checked
                  ELSE IF \E k \in 1..Len(project_items) :
                             project_items[k].project_id = project_id THEN 500
                  ELSE 200
    IN /\ group_response' =
             GroupResponse("delete_project", current_user, 0, project_id, 0, 0, 0, status)
       /\ projects' =
             IF status = 200 THEN {project \in projects : project.id # project_id}
             ELSE projects
       /\ UNCHANGED <<user_groups, user_group_memberships, user_group_invites, project_items>>
       /\ OnlyGroups

\* POST /projects/{project_id}/items with item_type "item"
add_item_to_project(project_id, item_id, amount, current_user) ==
    LET checked == ModifyStatus(project_id, current_user)
        status == IF checked # 0 THEN checked
                  ELSE IF ~ItemExists(item_id) THEN 404
                  ELSE 200
    IN /\ status = 200 => Len(project_items) < MaxRows
       /\ group_response' =
             GroupResponse("add_item_to_project", current_user, 0, project_id, 0, item_id,
                           amount, status)
       /\ project_items' =
             IF status = 200
             THEN Append(project_items, ProjectItem(project_id, item_id, 0, amount))
             ELSE project_items
       /\ UNCHANGED <<user_groups, user_group_memberships, user_group_invites, projects>>
       /\ OnlyGroups

\* DELETE /projects/{project_id}/items/{item_id}: the row is looked up
\* before the project; scalar_one_or_none raises when several rows match.
remove_item_from_project(project_id, item_id, current_user) ==
    LET rows == ItemRowsOf(project_id, item_id)
        status == IF Cardinality(rows) > 1 THEN 500
                  ELSE IF rows = {} THEN 404
                  ELSE IF ~can_user_modify(RowById(projects, project_id), current_user)
                       THEN 403
                  ELSE 200
    IN /\ group_response' =
             GroupResponse("remove_item_from_project", current_user, 0, project_id, 0, item_id,
                           0, status)
       /\ project_items' =
             IF status = 200 THEN WithoutRow(project_items, CHOOSE k \in rows : TRUE)
             ELSE project_items
       /\ UNCHANGED <<user_groups, user_group_memberships, user_group_invites, projects>>
       /\ OnlyGroups

\* PUT /projects/{project_id}/items/{item_id}/count
update_project_item_count(project_id, item_id, count, current_user) ==
    LET checked == ModifyStatus(project_id, current_user)
        rows == ItemRowsOf(project_id, item_id)
        status == IF checked # 0 THEN checked
                  ELSE IF Cardinality(rows) > 1 THEN 500
                  ELSE IF rows = {} THEN 404
                  ELSE 200
    IN /\ group_response' =
             GroupResponse("update_project_item_count", current_user, 0, project_id, 0,
                           item_id, count, status)
       /\ project_items' =
             IF status = 200
             THEN [project_items EXCEPT ![CHOOSE k \in rows : TRUE].count = StoredCount(count)]
             ELSE project_items
       /\ UNCHANGED <<user_groups, user_group_memberships, user_group_invites, projects>>
       /\ OnlyGroups

\* The handlers that change memberships and roles.
MembershipNext ==
    \/ \E current_user \in Users : create_group(current_user)
    \/ \E group_id \in GroupIds, current_user \in Users : delete_group(group_id, current_user)
    \/ \E group_id \in GroupIds, discord_id \in DiscordIds, current_user \in Users :
          add_user_to_group(group_id, discord_id, current_user)
    \/ \E group_id \in GroupIds, discord_id \in DiscordIds, current_user \in Users :
          remove_user_from_group(group_id, discord_id, current_user)
    \/ \E group_id \in GroupIds, discord_id \in DiscordIds, current_user \in Users :
          promote_user_to_co_owner(group_id, discord_id, current_user)
    \/ \E group_id \in GroupIds, discord_id \in DiscordIds, current_user \in Users :
          demote_co_owner_to_member(group_id, discord_id, current_user)

GroupNext ==
    \/ MembershipNext
    \/ \E group_id \in GroupIds, current_user \in Users :
          create_group_invite(group_id, current_user)
    \/ \E invite_code \in 1..MaxInvites, current_user \in Users :
          join_group_with_invite(invite_code, current_user)
    \/ \E group_id \in GroupIds, owner_id \in Users : create_invite(group_id, owner_id)
    \/ \E invite_id \in 1..MaxInvites : InviteExpires(invite_id)
    \/ \E invite_id \in 1..MaxInvites, user_id \in Users : use_invite(invite_id, user_id)

GroupSpec == CraftingInit /\ [][GroupNext]_vars

\* Projects of groups: who may read and modify them.
ProjectNext ==
    \/ MembershipNext
    \/ \E project_id \in ProjectIds, current_user \in Users :
          get_project(project_id, current_user)
    \/ \E group_id \in {0} \cup GroupIds, current_user \in Users :
          create_project("a", group_id, current_user)
    \/ \E project_id \in ProjectIds, current_user \in Users :
          update_project(project_id, "b", current_user)
    \/ \E project_id \in ProjectIds, current_user \in Users :
          delete_project(project_id, current_user)
    \/ \E project_id \in ProjectIds, current_user \in Users :
          add_item_to_project(project_id, 1, 1, current_user)
    \/ \E project_id \in ProjectIds, current_user \in Users :
          remove_item_from_project(project_id, 1, current_user)
    \/ \E project_id \in ProjectIds, current_user \in Users :
          update_project_item_count(project_id, 1, 1, current_user)

ProjectSpec == CraftingInit /\ [][ProjectNext]_vars

\* The items of personal projects.
ItemNext ==
    \/ \E current_user \in Users : create_project("a", 0, current_user)
    \/ \E project_id \in ProjectIds, current_user \in Users :
          delete_project(project_id, current_user)
    \/ \E project_id \in ProjectIds, item_id \in ProjectItemIds, amount \in TargetAmounts,
          current_user \in Users :
          add_item_to_project(project_id, item_id, amount, current_user)
    \/ \E project_id \in ProjectIds, item_id \in ProjectItemIds, current_user \in Users :
          remove_item_from_project(project_id, item_id, current_user)
    \/ \E project_id \in ProjectIds, item_id \in ProjectItemIds, count \in RequestedCounts,
          current_user \in Users :
          update_project_item_count(project_id, item_id, count, current_user)

ItemSpec == CraftingInit /\ [][ItemNext]_vars

-----------------------------------------------------------------------------
(* C26: a project is modified only by its owner or, when it belongs to a   *)
(* group, by the group's owner or a member whose role is CO_OWNER at the   *)
(* time of the request; a user who is only a MEMBER of the group reads the *)
(* project and changes nothing of it.                                      *)

ProjectModifyingOps ==
    {"update_project", "delete_project", "add_item_to_project", "remove_item_from_project",
     "update_project_item_count"}

\* The user is the project's owner, the owner of its group or a co-owner.
MayModify(project, user_id) ==
    \/ project.owner_id = user_id
    \/ /\ project.group_id # 0
       /\ \/ RowById(user_groups, project.group_id).owner_id = user_id
          \/ UserGroupMembership(user_id, project.group_id, CO_OWNER) \in user_group_memberships

\* The user is a MEMBER of the project's group and owns neither.
OnlyMember(project, user_id) ==
    /\ project.owner_id # user_id
    /\ project.group_id # 0
    /\ RowById(user_groups, project.group_id).owner_id # user_id
    /\ UserGroupMembership(user_id, project.group_id, MEMBER) \in user_group_memberships

\* What a request of a MEMBER may be answered with.
MemberAnswers(answer, statuses) ==
    /\ HasId(projects, answer.project_id)
    /\ OnlyMember(RowById(projects, answer.project_id), answer.user_id)
    => /\ answer.op = "get_project" => answer.status = 200
       /\ answer.op \in ProjectModifyingOps
             => /\ answer.status \in statuses
                /\ projects' = projects
                /\ project_items' = project_items

\* A request that modified the project came from a user who may.
OnlyModifiedByThoseWhoMay(answer) ==
    (/\ answer.op \in ProjectModifyingOps
     /\ answer.status = 200)
    => /\ HasId(projects, answer.project_id)
       /\ MayModify(RowById(projects, answer.project_id), answer.user_id)

-----------------------------------------------------------------------------
(* C27: roles change only through the group owner.  promote is answered    *)
(* 404 for an unknown group, 403 for a caller who is not the owner, 404    *)
(* for an unknown user or a user without membership, 400 for a CO_OWNER,   *)
(* and otherwise makes the membership CO_OWNER; demote the same with 400   *)
(* for a membership that is not CO_OWNER and MEMBER as the new role.  A    *)
(* rejected request leaves every membership as it was, and no other        *)
(* request changes the role of a membership.                               *)

RoleOps == {"promote_user_to_co_owner", "demote_co_owner_to_member"}

C27_RolesChangeThroughOwner ==
    [][LET answer == group_response'
           known == HasId(user_groups, answer.group_id)
           owner == known /\ RowById(user_groups, answer.group_id).owner_id = answer.user_id
           membership == MembershipOf(answer.target, answer.group_id)
           from == IF answer.op = "promote_user_to_co_owner" THEN MEMBER ELSE CO_OWNER
           to == IF answer.op = "promote_user_to_co_owner" THEN CO_OWNER ELSE MEMBER
       IN /\ answer.op \in RoleOps
             => /\ ~known => answer.status = 404
                /\ (known /\ ~owner) => answer.status = 403
                /\ (owner /\ membership = {}) => answer.status = 404
                /\ (owner /\ membership # {} /\ \E m \in membership : m.role # from)
                      => answer.status = 400
                /\ (owner /\ membership # {} /\ \A m \in membership : m.role = from)
                      => /\ answer.status = 200
                         /\ user_group_memberships' =
                               (user_group_memberships \ membership) \cup
                                  {UserGroupMembership(answer.target, answer.group_id, to)}
                /\ answer.status # 200 => user_group_memberships' = user_group_memberships
          /\ \A before \in user_group_memberships :
                \A after \in user_group_memberships' :
                   (/\ before.user_id = after.user_id
                    /\ before.user_group_id = after.user_group_id
                    /\ before.role # after.role)
                   => (answer.op \in RoleOps /\ answer.status = 200 /\ owner)]_vars

\* The owner has asked to promote user 2, who is a CO_OWNER already, and was
\* answered 400.
C27_Witness ==
    /\ group_response.op = "promote_user_to_co_owner"
    /\ group_response.status = 400
    /\ group_response.target = 2
    /\ UserGroupMembership(2, group_response.group_id, CO_OWNER) \in user_group_memberships

-----------------------------------------------------------------------------
(* C28: a group invite is single-use.  When use_invite returns True the    *)
(* user holds a MEMBER membership of the group and the invite is no longer *)
(* a row of user_group_invites; when it returns False neither memberships  *)
(* nor invites change.  use_invite does not await db.delete(self), so the  *)
(* invite outlives its use.                                                *)

C28_InviteSingleUse ==
    [][LET answer == group_response'
       IN answer.op = "use_invite"
          => IF answer.status = 200
             THEN /\ UserGroupMembership(answer.user_id, answer.group_id, MEMBER)
                        \in user_group_memberships'
                  /\ ~HasId(user_group_invites', answer.target)
             ELSE /\ user_group_memberships' = user_group_memberships
                  /\ user_group_invites' = user_group_invites]_vars

-----------------------------------------------------------------------------
(* C29: the count of every project item is >= 0 in every state.            *)
(* add_item_to_project appends a row with count 0 and target_count the     *)
(* requested amount; update_project_item_count stores the requested count, *)
(* or 0 when that is negative, in the row it addresses and leaves the      *)
(* other rows alone.                                                       *)

C29_CountNeverNegative ==
    [][LET answer == group_response'
           rows == ItemRowsOf(answer.project_id, answer.item_id)
       IN /\ \A k \in 1..Len(project_items') : project_items'[k].count >= 0
          /\ (answer.op = "add_item_to_project" /\ answer.status = 200)
                => project_items' =
                      Append(project_items,
                             ProjectItem(answer.project_id, answer.item_id, 0, answer.count))
          /\ (answer.op = "update_project_item_count" /\ answer.status = 200)
                => /\ Len(project_items') = Len(project_items)
                   /\ \A k \in 1..Len(project_items) :
                         project_items'[k] =
                            IF k \in rows
                            THEN [project_items[k] EXCEPT
                                     !.count = IF answer.count < 0 THEN 0 ELSE answer.count]
                            ELSE project_items[k]]_vars

\* A count of -1 was requested for item 1 of project 1, and its row holds 0.
C29_Witness ==
    /\ group_response.op = "update_project_item_count"
    /\ group_response.status = 200
    /\ group_response.count = -1
    /\ group_response.project_id = 1
    /\ group_response.item_id = 1
    /\ \E k \in ItemRowsOf(1, 1) : project_items[k].count = 0 /\ project_items[k].target_count = 2

-----------------------------------------------------------------------------
(* C30: a project holds at most one row per item_id, so that               *)
(* remove_item_from_project and update_project_item_count are answered     *)
(* 200, 403 or 404 and never with an internal error.  add_item_to_project  *)
(* does not look for a row of the item before it inserts one.              *)

C30_OneRowPerItem ==
    [][/\ \A j, k \in 1..Len(project_items') :
             (/\ project_items'[j].project_id = project_items'[k].project_id
              /\ project_items'[j].item_id = project_items'[k].item_id)
             => j = k
       /\ group_response'.op \in {"remove_item_from_project", "update_project_item_count"}
             => group_response'.status \in {200, 403, 404}]_vars

====
